---------------------------- MODULE Spec2Model ----------------------------
(***************************************************************************)
(* Model of the WWWMW website health scanner (captainpragmatic/wwwmw).     *)
(*                                                                         *)
(* One scan fans out to six probes (checkSSL, checkDNSSpeed,               *)
(* checkServerResponse, checkAvailability, checkEmailConfig,               *)
(* checkPageSpeed).  Every probe is an async function built on fetch()     *)
(* with an AbortController timer; the event loop runs one callback at a    *)
(* time, so every callback (a fetch settling, a timer firing, a body       *)
(* arriving) is one action.  When all six probes have settled handleScan   *)
(* derives the mobile and https checks and builds the report.              *)
(*                                                                         *)
(* Strings the code only compares or copies are kept as strings; host      *)
(* names are sequences of labels; wall-clock instants of certificates are  *)
(* counted in ticks of one hour (DayTicks ticks make the 86400000 ms of    *)
(* the code); elapsed times of requests are in milliseconds.               *)
(***************************************************************************)
EXTENDS Integers, Sequences, FiniteSets, TLC

VARIABLES
    phase,      \* position of the entry point: "start", "probing", "done"
    url,        \* the target URL, normalized once validated: [scheme, host]
    net,        \* per network operation: [st, timer, out, t, tb]
    reqs,       \* per network operation: number of fetch() calls issued
    res,        \* per probe: the settled promise, or Pending
    report,     \* the ScanResponse (or error response) returned, or NoReport
    call,       \* the entry point running and the endpoint behaviours it meets
    limiter     \* the rate limiter: the KV entry of one IP, the timestamps of
                \* the requests allowed earlier, the clock, the calls

vars == <<phase, url, net, reqs, res, report, call, limiter>>

-----------------------------------------------------------------------------
(* Small helpers for JavaScript values.                                     *)

\* d.f when the object has the property, else the given default (undefined).
Get(d, f, default) == IF f \in DOMAIN d THEN d[f] ELSE default

Min2(a, b) == IF a <= b THEN a ELSE b
Max2(a, b) == IF a >= b THEN a ELSE b

RECURSIVE SumSeq(_)
SumSeq(s) == IF s = <<>> THEN 0 ELSE Head(s) + SumSeq(Tail(s))

RECURSIVE MinSeq(_)
MinSeq(s) == IF Len(s) = 1 THEN s[1] ELSE Min2(Head(s), MinSeq(Tail(s)))

RECURSIVE MaxSeq(_)
MaxSeq(s) == IF Len(s) = 1 THEN s[1] ELSE Max2(Head(s), MaxSeq(Tail(s)))

\* Array.prototype.sort with the comparator (a, b) => b.k - a.k on an array of
\* keyed entries [k, v]: descending by k, stable (equal keys keep their order).
RECURSIVE InsertDesc(_, _)
InsertDesc(x, s) ==
    IF s = <<>> THEN <<x>>
    ELSE IF Head(s).k >= x.k
         THEN <<Head(s)>> \o InsertDesc(x, Tail(s))
         ELSE <<x>> \o s

RECURSIVE SortDesc(_)
SortDesc(s) ==
    IF s = <<>> THEN <<>>
    ELSE InsertDesc(s[Len(s)], SortDesc(SubSeq(s, 1, Len(s) - 1)))

\* The settled value of an async function: a returned value or a thrown error.
Return(v) == [kind |-> "return", v |-> v]
Throw(e)  == [kind |-> "throw", error |-> e]

CheckResult(status, message, score, details) ==
    [status |-> status, message |-> message, score |-> score, details |-> details]

\* The object literal {} .
EmptyObject == [f \in {} |-> TRUE]

-----------------------------------------------------------------------------
(* utils/validation.ts                                                      *)

\* A URL string is kept as what the URL parser reads from it: the scheme
\* before "://" ("" when the string has none) and the labels of the host ("<<>>"
\* when there is no host).
UrlString(scheme, host) == [scheme |-> scheme, host |-> host]

\* A label the URL parser rejects in a host (it holds a space).
BadLabel == "exa mple"

\* new URL(s): a TypeError unless s has a scheme and a well-formed host.
newURL(s) ==
    IF s.scheme = "" \/ s.host = <<>> \/ \E i \in 1..Len(s.host) : s.host[i] = BadLabel
    THEN Throw([kind |-> "error", name |-> "TypeError",
                message |-> <<"Invalid", "URL">>])
    ELSE Return([protocol |-> s.scheme, hostname |-> s.host])

\* Variant: localhost is accepted like any other host.
validateAndNormalizeUrlMutant(urlString) ==
    LET normalized == IF urlString.scheme \notin {"http", "https"}
                      THEN UrlString("https", urlString.host)
                      ELSE urlString
        parsed == newURL(normalized)
    IN  IF urlString = UrlString("", <<>>)
        THEN [isValid |-> FALSE, error |-> "URL is required"]
        ELSE IF parsed.kind = "throw"
        THEN [isValid |-> FALSE, error |-> "Invalid URL format"]
        ELSE [isValid |-> TRUE,
              normalizedUrl |-> UrlString(parsed.v.protocol, parsed.v.hostname)]

validateAndNormalizeUrl(urlString) ==
    LET normalized == IF urlString.scheme \notin {"http", "https"}
                      THEN UrlString("https", urlString.host)
                      ELSE urlString
        parsed == newURL(normalized)
    IN  IF urlString = UrlString("", <<>>)
        THEN [isValid |-> FALSE, error |-> "URL is required"]
        ELSE IF parsed.kind = "throw"
        THEN [isValid |-> FALSE, error |-> "Invalid URL format"]
        ELSE LET url0 == parsed.v
             IN  IF url0.protocol \notin {"http", "https"}
                 THEN [isValid |-> FALSE,
                       error |-> "Only HTTP and HTTPS protocols are supported"]
                 ELSE IF url0.hostname = <<>>
                 THEN [isValid |-> FALSE, error |-> "Invalid hostname"]
                 ELSE IF url0.hostname \in {<<"localhost">>, <<"127", "0", "0", "1">>}
                 THEN [isValid |-> FALSE,
                       error |-> "Localhost URLs are not supported"]
                 ELSE [isValid |-> TRUE,
                       normalizedUrl |-> UrlString(url0.protocol, url0.hostname)]

extractHostname(u) ==
    LET parsed == newURL(u)
    IN  IF parsed.kind = "throw" THEN <<>> ELSE parsed.v.hostname

isHttps(u) ==
    LET parsed == newURL(u)
    IN  IF parsed.kind = "throw" THEN FALSE ELSE parsed.v.protocol = "https"


-----------------------------------------------------------------------------
(* Outcomes of one fetch().  A fetch either resolves with a response        *)
(* (headers: ok, status) whose body, when the code reads it, parses to a    *)
(* JSON value or fails to parse; or it rejects with an error.               *)

Null == [null |-> TRUE]                     \* JavaScript null / undefined

Response(status) ==
    [kind |-> "response", status |-> status,
     ok |-> (status >= 200 /\ status <= 299)]

WithBody(resp, body) == [kind |-> "response", status |-> resp.status,
                         ok |-> resp.ok, body |-> body]

Json(v)   == [parsed |-> TRUE, value |-> v]
Malformed == [parsed |-> FALSE]             \* response.json() throws

\* Parsed JSON values: null, an array, a string, an object with its properties.
Arr(items) == [type |-> "array", items |-> items]
Str(n)     == [type |-> "string", length |-> n]
IsNull(v)  == "null" \in DOMAIN v
IsArr(v)   == Get(v, "type", "null") = "array"
\* v.length
length(v)  == IF IsArr(v) THEN Len(v.items) ELSE Get(v, "length", 0)

\* An error: its name and its message as a sequence of words.
Err(name, message) == [kind |-> "error", name |-> name, message |-> message]

AbortError   == Err("AbortError", <<"The", "operation", "was", "aborted">>)
NetworkError == Err("TypeError", <<"Network", "connection", "lost">>)
TlsError     == Err("TypeError", <<"TLS", "handshake", "failed">>)
CertError    == Err("TypeError", <<"invalid", "certificate">>)
SyntaxError  == Err("SyntaxError", <<"Unexpected", "token">>)

\* String.prototype.includes on an error message, word by word.
includes(message, word) == \E i \in 1..Len(message) : message[i] = word

-----------------------------------------------------------------------------
(* services/ssl-check.ts: certificate-transparency lookup                   *)

\* One day, the 86400000 ms of the code, in ticks of one hour (3600000 ms).
DayTicks == 86400000 \div 3600000

\* certs.slice(0, 50)
CertCap == 50

\* hostnameLC.endsWith("." + domain): domain is a proper suffix, label-wise.
endsWithDot(host, domain) ==
    /\ Len(domain) < Len(host)
    /\ SubSeq(host, Len(host) - Len(domain) + 1, Len(host)) = domain

\* The predicate of sans.some(...): exact match or wildcard match.
sanMatches(san, hostname) ==
    IF ~san.wild THEN san.name = hostname
    ELSE endsWithDot(hostname, san.name) \/ hostname = san.name

certMatches(cert, hostname) ==
    \E i \in 1..Len(cert.name_value) : sanMatches(cert.name_value[i], hostname)

matchingCerts(certs, hostname) ==
    LET certsToProcess == SubSeq(certs, 1, Min2(Len(certs), CertCap))
        keep(c) == certMatches(c, hostname)
    IN  SelectSeq(certsToProcess, keep)

\* Variant: the valid records sorted by not_before ascending.
activeCertsMutant(matching, now) ==
    LET valid(c) == c.not_after > now
        live == SelectSeq(matching, valid)
    IN  SortDesc([i \in 1..Len(live) |-> [k |-> 0 - live[i].not_before, v |-> live[i]]])

\* matchingCerts.filter(not_after > now).sort(by not_before, descending)
activeCerts(matching, now) ==
    LET valid(c) == c.not_after > now
        live == SelectSeq(matching, valid)
    IN  SortDesc([i \in 1..Len(live) |-> [k |-> live[i].not_before, v |-> live[i]]])

\* matchingCerts.sort(by not_after, descending)
expiredCerts(matching) ==
    SortDesc([i \in 1..Len(matching) |-> [k |-> matching[i].not_after, v |-> matching[i]]])

\* The value computed from the parsed, non-empty certificate array.
certDetailsOf(certs, hostname, now) ==
    LET matching == matchingCerts(certs, hostname)
        active == activeCerts(matching, now)
    IN  IF matching = <<>> THEN Null
        ELSE IF active = <<>>
        THEN LET mostRecentExpired == expiredCerts(matching)[1].v
                 daysExpired == (now - mostRecentExpired.not_after) \div DayTicks
             IN  [expiresAt |-> mostRecentExpired.not_after,
                  daysUntilExpiry |-> 0 - daysExpired,
                  issuer |-> mostRecentExpired.issuer_name,
                  sans |-> Len(mostRecentExpired.name_value),
                  expiringSoon |-> FALSE]
        ELSE LET activeCert == active[1].v
                 daysUntilExpiry == (activeCert.not_after - now) \div DayTicks
             IN  [expiresAt |-> activeCert.not_after,
                  daysUntilExpiry |-> daysUntilExpiry,
                  issuer |-> activeCert.issuer_name,
                  sans |-> Len(activeCert.name_value),
                  expiringSoon |-> (daysUntilExpiry <= 30)]

\* getCertificateFromCTLogs(hostname), given how the crt.sh request went.
getCertificateFromCTLogs(hostname, o, now) ==
    IF o.kind = "error" THEN Null                       \* catch
    ELSE IF ~o.ok THEN Null
    ELSE IF ~o.body.parsed THEN Null                    \* catch
    ELSE IF IsNull(o.body.value) THEN Null              \* !certs
    ELSE IF ~IsArr(o.body.value) THEN Null              \* catch (no slice)
    ELSE IF length(o.body.value) = 0 THEN Null
    ELSE certDetailsOf(o.body.value.items, hostname, now)


-----------------------------------------------------------------------------
(* services/ssl-check.ts: checkSSL                                          *)

\* The verdict once the handshake has succeeded and the lookup has returned.
sslFromCertDetails(certDetails, statusCode) ==
    IF certDetails # Null
    THEN IF certDetails.daysUntilExpiry < 0
         THEN CheckResult("warn", "HTTPS enabled but certificate expired", 5,
                  [protocol |-> "https", secure |-> TRUE, statusCode |-> statusCode,
                   expiresAt |-> certDetails.expiresAt,
                   daysUntilExpiry |-> certDetails.daysUntilExpiry,
                   expired |-> TRUE, issuer |-> certDetails.issuer,
                   sans |-> certDetails.sans, certTransparency |-> TRUE])
         ELSE IF certDetails.expiringSoon
         THEN CheckResult("warn", "HTTPS enabled, certificate expires soon", 8,
                  [protocol |-> "https", secure |-> TRUE, statusCode |-> statusCode,
                   expiresAt |-> certDetails.expiresAt,
                   daysUntilExpiry |-> certDetails.daysUntilExpiry,
                   expiringSoon |-> TRUE, issuer |-> certDetails.issuer,
                   sans |-> certDetails.sans, certTransparency |-> TRUE])
         ELSE CheckResult("pass", "HTTPS enabled with valid certificate (expires in N days)", 10,
                  [protocol |-> "https", secure |-> TRUE, statusCode |-> statusCode,
                   expiresAt |-> certDetails.expiresAt,
                   daysUntilExpiry |-> certDetails.daysUntilExpiry,
                   expiringSoon |-> FALSE, issuer |-> certDetails.issuer,
                   sans |-> certDetails.sans, certTransparency |-> TRUE])
    ELSE CheckResult("pass", "HTTPS enabled with valid certificate", 10,
             [protocol |-> "https", secure |-> TRUE, statusCode |-> statusCode,
              certTransparency |-> FALSE])

\* Variant: every failed handshake fails the check.
sslHandshakeFailedMutant(e) ==
    CheckResult("fail", "SSL/TLS certificate is invalid or expired", 0,
        [protocol |-> "https", secure |-> FALSE, error |-> e.message])

\* The verdict when the handshake fetch rejected with error e.
sslHandshakeFailed(e) ==
    IF includes(e.message, "certificate") \/ includes(e.message, "SSL")
       \/ includes(e.message, "TLS")
    THEN CheckResult("fail", "SSL/TLS certificate is invalid or expired", 0,
             [protocol |-> "https", secure |-> FALSE, error |-> e.message])
    ELSE CheckResult("warn", "HTTPS configured but connection issue detected", 5,
             [protocol |-> "https", secure |-> FALSE, error |-> e.message])

sslNotHttps ==
    CheckResult("fail", "Site is not using HTTPS - insecure connection", 0,
        [protocol |-> "http", secure |-> FALSE])

\* checkSSL(url): hs is the outcome of the handshake fetch, ct the outcome of
\* the crt.sh fetch (read only after a successful handshake).
sslUnverifiable(error) ==
    CheckResult("fail", "Unable to verify SSL/TLS", 0, [error |-> error.message])

checkSSL(u, hs, ct, now) ==
    Return(IF newURL(u).kind = "throw" THEN sslUnverifiable(newURL(u).error)
           ELSE IF ~isHttps(u) THEN sslNotHttps
           ELSE IF hs.kind = "error" THEN sslHandshakeFailed(hs)
           ELSE sslFromCertDetails(
                    getCertificateFromCTLogs(newURL(u).v.hostname, ct, now),
                    hs.status))

-----------------------------------------------------------------------------
(* services/server-response.ts                                              *)

checkServerResponseTry(o, ttfb) ==
    IF o.kind = "error" THEN Throw(o)
    ELSE LET details == [ttfb |-> ttfb, statusCode |-> o.status]
         IN  IF o.status < 200 \/ o.status >= 400
             THEN Return(CheckResult("warn", "Server returned error status", 5, details))
             ELSE IF ttfb < 200
             THEN Return(CheckResult("pass", "Fast server response", 15, details))
             ELSE IF ttfb < 500
             THEN Return(CheckResult("warn", "Moderate server response", 10, details))
             ELSE Return(CheckResult("fail", "Slow server response", 5, details))

checkServerResponseCatch(error) ==
    IF error.name = "AbortError"
    THEN Return(CheckResult("fail", "Server response timed out (>10s)", 0,
                    [error |-> <<"Timeout">>, ttfb |-> 10000]))
    ELSE Return(CheckResult("fail", "Unable to reach server", 0,
                    [error |-> error.message]))

checkServerResponse(o, ttfb) ==
    LET r == checkServerResponseTry(o, ttfb)
    IN  IF r.kind = "throw" THEN checkServerResponseCatch(r.error) ELSE r

-----------------------------------------------------------------------------
(* services/availability-check.ts                                           *)

checkAvailabilityTry(o) ==
    IF o.kind = "error" THEN Throw(o)
    ELSE LET details == [statusCode |-> o.status, available |-> TRUE]
         IN  IF o.status >= 200 /\ o.status < 300
             THEN Return(CheckResult("pass", "Site is online and responding", 15, details))
             ELSE IF o.status >= 300 /\ o.status < 400
             THEN Return(CheckResult("pass", "Site is online (with redirect)", 15, details))
             ELSE IF o.status >= 400 /\ o.status < 500
             THEN Return(CheckResult("warn", "Site responding but with error", 8, details))
             ELSE Return(CheckResult("fail", "Site has server error", 0,
                             [statusCode |-> o.status, available |-> FALSE]))

checkAvailabilityCatch(error) ==
    IF error.name = "AbortError"
    THEN Return(CheckResult("fail", "Site is not responding (timeout)", 0,
                    [error |-> <<"Timeout", "after", "5", "seconds">>,
                     available |-> FALSE]))
    ELSE Return(CheckResult("fail", "Site is offline or unreachable", 0,
                    [error |-> error.message, available |-> FALSE]))

checkAvailability(o) ==
    LET r == checkAvailabilityTry(o)
    IN  IF r.kind = "throw" THEN checkAvailabilityCatch(r.error) ELSE r

-----------------------------------------------------------------------------
(* services/email-config.ts                                                 *)

checkEmailConfigTry(u, o) ==
    IF extractHostname(u) = <<>>
    THEN Return(CheckResult("fail", "Invalid hostname", 0, EmptyObject))
    ELSE IF o.kind = "error" THEN Throw(o)
    ELSE IF ~o.ok
    THEN Return(CheckResult("warn", "Unable to check email configuration", 5,
                    [error |-> <<"HTTP">>, status |-> o.status]))
    ELSE IF ~o.body.parsed THEN Throw(SyntaxError)
    ELSE LET data == o.body.value
         IN  IF IsNull(data) THEN Throw(NetworkError)   \* TypeError: data.Status
             ELSE IF data.Status = 0 /\ "Answer" \in DOMAIN data
                     /\ length(data.Answer) > 0
             THEN IF ~IsArr(data.Answer) THEN Throw(NetworkError) \* no .map
                  ELSE Return(CheckResult("pass", "Email configured", 10,
                                  [mxRecords |-> length(data.Answer)]))
             ELSE Return(CheckResult("warn", "No email (MX) records configured", 5,
                             [mxRecords |-> 0]))

\* Variant: an error other than the timeout fails the check.
checkEmailConfigCatchMutant(error) ==
    IF error.name = "AbortError"
    THEN Return(CheckResult("warn", "Email config check timed out", 5,
                    [error |-> <<"Timeout">>]))
    ELSE Return(CheckResult("fail", "Unable to verify email configuration", 0,
                    [error |-> error.message]))

checkEmailConfigCatch(error) ==
    IF error.name = "AbortError"
    THEN Return(CheckResult("warn", "Email config check timed out", 5,
                    [error |-> <<"Timeout">>]))
    ELSE Return(CheckResult("warn", "Unable to verify email configuration", 5,
                    [error |-> error.message]))

checkEmailConfig(u, o) ==
    LET r == checkEmailConfigTry(u, o)
    IN  IF r.kind = "throw" THEN checkEmailConfigCatch(r.error) ELSE r

-----------------------------------------------------------------------------
(* services/pagespeed-check.ts                                              *)

\* Math.round(x * 100) for a score x given in thousandths (x = permille/1000).
roundPercent(permille) == (permille + 5) \div 10

\* Variant: a non-success status graded like a missing score.
checkPageSpeedTryMutant(o) ==
    IF o.kind = "error" THEN Throw(o)
    ELSE IF ~o.ok
    THEN Return(CheckResult("fail", "Poor performance", 5, [performanceScore |-> 0]))
    ELSE IF ~o.body.parsed THEN Throw(SyntaxError)
    ELSE LET data == o.body.value
         IN  IF IsNull(data) THEN Throw(NetworkError)
             ELSE LET performanceScore == roundPercent(Get(data, "score", 0))
                      details == [performanceScore |-> performanceScore]
                  IN  IF performanceScore >= 90
                      THEN Return(CheckResult("pass", "Excellent performance", 15, details))
                      ELSE IF performanceScore >= 50
                      THEN Return(CheckResult("warn", "Moderate performance", 10, details))
                      ELSE Return(CheckResult("fail", "Poor performance", 5, details))

checkPageSpeedTry(o) ==
    IF o.kind = "error" THEN Throw(o)
    ELSE IF ~o.ok
    THEN Return(CheckResult("warn", "Unable to fetch PageSpeed data - API unavailable", 8,
                    [error |-> <<"HTTP">>, status |-> o.status,
                     note |-> "PageSpeed check skipped"]))
    ELSE IF ~o.body.parsed THEN Throw(SyntaxError)
    ELSE LET data == o.body.value
         IN  IF IsNull(data) THEN Throw(NetworkError)   \* TypeError
             ELSE LET performanceScore == roundPercent(Get(data, "score", 0))
                      details == [performanceScore |-> performanceScore]
                  IN  IF performanceScore >= 90
                      THEN Return(CheckResult("pass", "Excellent performance", 15, details))
                      ELSE IF performanceScore >= 50
                      THEN Return(CheckResult("warn", "Moderate performance", 10, details))
                      ELSE Return(CheckResult("fail", "Poor performance", 5, details))

\* Variant: a timeout graded as a failure.
checkPageSpeedCatchMutant(error) ==
    IF error.name = "AbortError"
    THEN Return(CheckResult("fail", "PageSpeed check timed out - may indicate slow page", 0,
                    [error |-> <<"Timeout", "after", "30", "seconds">>,
                     note |-> "This timeout suggests performance issues"]))
    ELSE Return(CheckResult("warn", "Unable to complete PageSpeed check", 8,
                    [error |-> error.message, note |-> "PageSpeed check skipped"]))

checkPageSpeedCatch(error) ==
    IF error.name = "AbortError"
    THEN Return(CheckResult("warn", "PageSpeed check timed out - may indicate slow page", 8,
                    [error |-> <<"Timeout", "after", "30", "seconds">>,
                     note |-> "This timeout suggests performance issues"]))
    ELSE Return(CheckResult("warn", "Unable to complete PageSpeed check", 8,
                    [error |-> error.message, note |-> "PageSpeed check skipped"]))

checkPageSpeed(o) ==
    LET r == checkPageSpeedTry(o)
    IN  IF r.kind = "throw" THEN checkPageSpeedCatch(r.error) ELSE r


-----------------------------------------------------------------------------
(* services/dns-speed.ts                                                    *)

\* Variant: the time taken at the headers reported after a body that failed
\* to parse.
queryDNSProviderMutant(o, t, tBody) ==
    IF o.kind = "error" THEN [time |-> t, data |-> Null]
    ELSE IF ~o.ok THEN [time |-> t, data |-> Null]
    ELSE IF ~o.body.parsed THEN [time |-> t, data |-> Null]
    ELSE [time |-> t, data |-> o.body.value]

\* queryDNSProvider: t is the elapsed time when the fetch settled, tBody the
\* elapsed time when reading the body ended.
queryDNSProvider(o, t, tBody) ==
    IF o.kind = "error" THEN [time |-> t, data |-> Null]            \* catch
    ELSE IF ~o.ok THEN [time |-> t, data |-> Null]
    ELSE IF ~o.body.parsed THEN [time |-> tBody, data |-> Null]     \* catch
    ELSE [time |-> t, data |-> o.body.value]

CdnKeywords ==
    {"cloudflare", "fastly", "akamai", "edgekey", "edgesuite", "cloudfront", "cdn"}

\* The address-block patterns of cdnPatterns, on the first two octets.
cdnAddress(ip) ==
    \/ ip[1] = 104 /\ ip[2] >= 16 /\ ip[2] <= 31
    \/ ip[1] = 172 /\ ip[2] >= 64 /\ ip[2] <= 131
    \/ ip[1] = 151 /\ ip[2] = 101

\* detectCDN(answers): an answer is [name: the keywords its name contains,
\* data: the first two octets of its address, TTL].
detectCDN(answers) ==
    \E i \in 1..Len(answers) :
        cdnAddress(answers[i].data) \/ answers[i].name \cap CdnKeywords # {}

\* Variant: the average is cut to an integer.
roundAverageMutant(sum, n) == sum \div n

\* Math.round(sum / n) for non-negative integers.
roundAverage(sum, n) == (2 * sum + n) \div (2 * n)

\* data && data.Status === 0
dnsSuccess(r) == ~IsNull(r.data) /\ Get(r.data, "Status", -1) = 0

\* Variant: the warn band closed at 150 ms.
dnsStatusMutant(sum, n) ==
    IF sum < 75 * n THEN "pass" ELSE IF sum <= 150 * n THEN "warn" ELSE "fail"

dnsStatus(sum, n) ==
    IF sum < 75 * n THEN "pass" ELSE IF sum < 150 * n THEN "warn" ELSE "fail"

\* Variant: the pass band closed at 75 ms.
dnsScoreMutant(sum, n) ==
    IF sum <= 75 * n THEN 10 ELSE IF sum < 150 * n THEN 5 ELSE 0

dnsScore(sum, n) ==
    IF sum < 75 * n THEN 10 ELSE IF sum < 150 * n THEN 5 ELSE 0

dnsSpeedLabel(sum, n) ==
    IF sum < 75 * n THEN (IF sum < 20 * n THEN "Excellent" ELSE "Fast")
    ELSE IF sum < 150 * n THEN "Moderate" ELSE "Slow"

\* The try block of checkDNSSpeed after both provider queries have returned.
checkDNSSpeedTry(u, cloudflareResult, googleResult) ==
    LET times == (IF dnsSuccess(cloudflareResult)
                  THEN <<cloudflareResult.time>> ELSE <<>>)
                 \o (IF dnsSuccess(googleResult)
                     THEN <<googleResult.time>> ELSE <<>>)
        primaryData ==
            IF dnsSuccess(googleResult) /\ ~dnsSuccess(cloudflareResult)
            THEN googleResult.data ELSE cloudflareResult.data
    IN  IF extractHostname(u) = <<>>
        THEN Return(CheckResult("fail", "Invalid hostname", 0, EmptyObject))
        ELSE IF IsNull(primaryData) \/ Get(primaryData, "Status", -1) # 0
                \/ times = <<>>
        THEN Return(CheckResult("fail", "DNS lookup failed on all providers", 0,
                        [responseTime |-> Min2(cloudflareResult.time, googleResult.time),
                         error |-> <<"No", "valid", "DNS", "response">>]))
        ELSE IF "Answer" \notin DOMAIN primaryData \/ length(primaryData.Answer) = 0
        THEN Return(CheckResult("fail", "DNS records not found", 0,
                        [responseTime |-> times[1], status |-> primaryData.Status]))
        ELSE IF ~IsArr(primaryData.Answer)
        THEN Throw(NetworkError)            \* TypeError: answers.some
        ELSE LET sum == SumSeq(times)
                 n == Len(times)
                 answers == primaryData.Answer.items
                 details ==
                     [responseTime |-> roundAverage(sum, n),
                      averageTime |-> roundAverage(sum, n),
                      minTime |-> MinSeq(times),
                      maxTime |-> MaxSeq(times),
                      records |-> Len(answers),
                      dnssecValid |-> (Get(primaryData, "AD", FALSE) = TRUE),
                      cdnDetected |-> detectCDN(answers),
                      ttl |-> answers[1].TTL]
             IN  Return(CheckResult(dnsStatus(sum, n),
                            dnsSpeedLabel(sum, n), dnsScore(sum, n), details))

checkDNSSpeedCatch(error) ==
    IF error.name = "AbortError"
    THEN Return(CheckResult("fail", "DNS lookup timed out", 0,
                    [error |-> <<"Timeout">>]))
    ELSE Return(CheckResult("fail", "DNS check failed", 0,
                    [error |-> error.message]))

\* Variant: the try block without its catch.
checkDNSSpeedMutant(u, cloudflareResult, googleResult) ==
    checkDNSSpeedTry(u, cloudflareResult, googleResult)

checkDNSSpeed(u, cloudflareResult, googleResult) ==
    LET r == checkDNSSpeedTry(u, cloudflareResult, googleResult)
    IN  IF r.kind = "throw" THEN checkDNSSpeedCatch(r.error) ELSE r


-----------------------------------------------------------------------------
(* index.ts: derived checks                                                 *)

\* Variant: a score of exactly 50 still needs improvement.
deriveMobileCheckMutant(pageSpeedResult) ==
    LET performanceScore == Get(pageSpeedResult.details, "performanceScore", 0)
        details == [derivedFrom |-> "pageSpeed", performanceScore |-> performanceScore]
    IN  IF pageSpeedResult.status = "fail" \/ performanceScore <= 50
        THEN CheckResult("warn", "Mobile performance needs improvement", 5, details)
        ELSE IF pageSpeedResult.status = "warn" \/ performanceScore < 90
        THEN CheckResult("pass", "Good mobile performance", 12, details)
        ELSE CheckResult("pass", "Excellent mobile performance", 15, details)

deriveMobileCheck(pageSpeedResult) ==
    LET performanceScore == Get(pageSpeedResult.details, "performanceScore", 0)
        details == [derivedFrom |-> "pageSpeed", performanceScore |-> performanceScore]
    IN  IF pageSpeedResult.status = "fail" \/ performanceScore < 50
        THEN CheckResult("warn", "Mobile performance needs improvement", 5, details)
        ELSE IF pageSpeedResult.status = "warn" \/ performanceScore < 90
        THEN CheckResult("pass", "Good mobile performance", 12, details)
        ELSE CheckResult("pass", "Excellent mobile performance", 15, details)

\* Variant: a certificate warning still counts as properly configured.
deriveHttpsCheckMutant(sslResult, u) ==
    IF ~isHttps(u)
    THEN CheckResult("fail", "Site not using HTTPS", 0,
             [derivedFrom |-> "ssl", protocol |-> "http"])
    ELSE IF sslResult.status \in {"pass", "warn"}
    THEN CheckResult("pass", "HTTPS properly configured", 10,
             [derivedFrom |-> "ssl", protocol |-> "https"])
    ELSE CheckResult("fail", "HTTPS not working properly", 0,
             [derivedFrom |-> "ssl", protocol |-> "https"])

deriveHttpsCheck(sslResult, u) ==
    IF ~isHttps(u)
    THEN CheckResult("fail", "Site not using HTTPS", 0,
             [derivedFrom |-> "ssl", protocol |-> "http"])
    ELSE IF sslResult.status = "pass"
    THEN CheckResult("pass", "HTTPS properly configured", 10,
             [derivedFrom |-> "ssl", protocol |-> "https"])
    ELSE IF sslResult.status = "warn"
    THEN CheckResult("warn", "HTTPS enabled but with issues", 5,
             [derivedFrom |-> "ssl", protocol |-> "https"])
    ELSE CheckResult("fail", "HTTPS not working properly", 0,
             [derivedFrom |-> "ssl", protocol |-> "https"])

-----------------------------------------------------------------------------
(* utils/scoring.ts                                                         *)

SCORE_LEVELS ==
    << [min |-> 85, max |-> 100, level |-> "EXCELLENT - Great website health!",
        color |-> "#28a745"],
       [min |-> 70, max |-> 84, level |-> "GOOD - Minor improvements needed",
        color |-> "#17a2b8"],
       [min |-> 50, max |-> 69, level |-> "NEEDS WORK - Several issues to fix",
        color |-> "#ffc107"],
       [min |-> 0, max |-> 49, level |-> "POOR - Serious problems detected",
        color |-> "#dc3545"] >>

\* The order of the scores array of calculateOverallScore.
CheckNames ==
    <<"ssl", "dns", "serverResponse", "pageSpeed", "mobile", "https",
      "availability", "email">>

\* Variant: the last score left out of the sum.
calculateOverallScoreMutant(checks) ==
    SumSeq([i \in 1..(Len(CheckNames) - 1) |-> checks[CheckNames[i]].score])

calculateOverallScore(checks) ==
    SumSeq([i \in 1..Len(CheckNames) |-> checks[CheckNames[i]].score])

\* Variant: a band starts above its minimum.
getScoreLevelMutant(score) ==
    LET hits == {i \in 1..Len(SCORE_LEVELS) :
                    score > SCORE_LEVELS[i].min /\ score <= SCORE_LEVELS[i].max}
    IN  IF hits = {} THEN [level |-> "Unknown", color |-> "#6c757d"]
        ELSE LET first == CHOOSE i \in hits : \A j \in hits : i <= j
             IN  [level |-> SCORE_LEVELS[first].level,
                  color |-> SCORE_LEVELS[first].color]

getScoreLevel(score) ==
    LET hits == {i \in 1..Len(SCORE_LEVELS) :
                    score >= SCORE_LEVELS[i].min /\ score <= SCORE_LEVELS[i].max}
    IN  IF hits = {} THEN [level |-> "Unknown", color |-> "#6c757d"]
        ELSE LET first == CHOOSE i \in hits : \A j \in hits : i <= j
             IN  [level |-> SCORE_LEVELS[first].level,
                  color |-> SCORE_LEVELS[first].color]

\* Variant: the offline issue is listed before the HTTPS issue.
identifyCriticalIssuesMutant(checks) ==
    (IF checks.availability.status = "fail"
     THEN <<"Site is currently offline">> ELSE <<>>)
    \o (IF checks.ssl.status = "fail"
        THEN <<"No HTTPS - Site is insecure">> ELSE <<>>)
    \o (IF checks.serverResponse.status = "fail"
        THEN <<"Server response is very slow">> ELSE <<>>)
    \o (IF checks.pageSpeed.status = "fail"
        THEN <<"Poor page performance - significantly impacts user experience">>
        ELSE <<>>)

identifyCriticalIssues(checks) ==
    (IF checks.ssl.status = "fail" THEN <<"No HTTPS - Site is insecure">> ELSE <<>>)
    \o (IF checks.availability.status = "fail"
        THEN <<"Site is currently offline">> ELSE <<>>)
    \o (IF checks.serverResponse.status = "fail"
        THEN <<"Server response is very slow">> ELSE <<>>)
    \o (IF checks.pageSpeed.status = "fail"
        THEN <<"Poor page performance - significantly impacts user experience">>
        ELSE <<>>)

\* The truthiness of sslDetails.daysUntilExpiry && sslDetails.daysUntilExpiry < 30
daysBelow30(sslDetails) ==
    /\ "daysUntilExpiry" \in DOMAIN sslDetails
    /\ sslDetails.daysUntilExpiry # 0
    /\ sslDetails.daysUntilExpiry < 30

RecEnableHttps   == "Enable HTTPS with Let's Encrypt (free, 30 min setup)"
RecRenewSoon     == "Renew your SSL certificate soon (expires in N days)"
RecExpired       == "Your SSL certificate has expired - renew immediately to maintain security"
RecSpeedFail     == "Optimize images and enable caching to improve load times"
RecSpeedWarn     == "Consider optimizing images and minifying CSS/JS for better performance"
RecServerFail    == "Consider upgrading hosting for faster response times"
RecServerWarn    == "Server response could be faster - consider CDN or server optimization"
RecDnsFail       == "Move to a faster DNS provider (Cloudflare or Google DNS recommended)"
RecDnsWarn       == "Optimize DNS by using an Anycast resolver for better global performance"
RecDnssec        == "Enable DNSSEC on your domain for tamper protection and security"
RecCdn           == "Consider using a CDN (Cloudflare/Fastly) for edge caching and faster global access"
RecMobileFail    == "Improve mobile responsiveness and mobile-specific optimizations"
RecMobileWarn    == "Fine-tune mobile experience for better user engagement"
RecEmail         == "Configure MX records to enable email for your domain"
RecGreatJob      == "Great job! Keep monitoring your site regularly"

\* The pushes of generateRecommendations before the final fallback.
ruleRecommendations(checks) ==
    LET sslDetails == checks.ssl.details
        dnsDetails == checks.dns.details
    IN  (IF checks.ssl.status = "fail" \/ checks.https.status = "fail"
         THEN <<RecEnableHttps>>
         ELSE IF checks.ssl.status = "warn"
         THEN (IF Get(sslDetails, "expiringSoon", FALSE) \/ daysBelow30(sslDetails)
               THEN <<RecRenewSoon>>
               ELSE IF Get(sslDetails, "expired", FALSE) THEN <<RecExpired>>
               ELSE <<>>)
         ELSE <<>>)
        \o (IF checks.pageSpeed.status = "fail" THEN <<RecSpeedFail>>
            ELSE IF checks.pageSpeed.status = "warn" THEN <<RecSpeedWarn>>
            ELSE <<>>)
        \o (IF checks.serverResponse.status = "fail" THEN <<RecServerFail>>
            ELSE IF checks.serverResponse.status = "warn" THEN <<RecServerWarn>>
            ELSE <<>>)
        \o (IF checks.dns.status = "fail" THEN <<RecDnsFail>>
            ELSE IF checks.dns.status = "warn" THEN <<RecDnsWarn>>
            ELSE <<>>)
        \o (IF "dnssecValid" \in DOMAIN dnsDetails /\ dnsDetails.dnssecValid = FALSE
            THEN <<RecDnssec>> ELSE <<>>)
        \o (IF ~Get(dnsDetails, "cdnDetected", FALSE)
               /\ (checks.dns.status = "warn" \/ checks.dns.status = "fail")
            THEN <<RecCdn>> ELSE <<>>)
        \o (IF checks.mobile.status = "fail" THEN <<RecMobileFail>>
            ELSE IF checks.mobile.status = "warn" THEN <<RecMobileWarn>>
            ELSE <<>>)
        \o (IF checks.email.status = "warn" THEN <<RecEmail>> ELSE <<>>)

\* Variant: the affirmation closes every list.
generateRecommendationsPraiseMutant(checks) ==
    ruleRecommendations(checks) \o <<RecGreatJob>>

\* Variant: without the final fallback.
generateRecommendationsMutant(checks) == ruleRecommendations(checks)

generateRecommendations(checks) ==
    LET recommendations == ruleRecommendations(checks)
    IN  IF Len(recommendations) = 0 THEN <<RecGreatJob>> ELSE recommendations



-----------------------------------------------------------------------------
(* The environment: what the remote endpoints may answer.                   *)

Host == <<"www", "example", "com">>

Urls == {UrlString("https", Host), UrlString("http", Host)}

\* A string that is not a URL: the host name alone.
BareHost == UrlString("", Host)

\* Values of the url query parameter: the two URLs, the host name alone, no
\* value, a loopback URL and a string the URL parser rejects.
Targets ==
    Urls \cup {BareHost, UrlString("", <<>>), UrlString("http", <<"localhost">>),
               UrlString("", <<BadLabel, "com">>)}

\* The instant new Date() reads during the lookup, in ticks.
Clock == 100 * DayTicks + 7

Cert(sans, notBefore, notAfter) ==
    [issuer_name |-> "R3", name_value |-> sans,
     not_before |-> notBefore, not_after |-> notAfter]

SanExact    == <<[wild |-> FALSE, name |-> Host]>>
SanWildcard == <<[wild |-> FALSE, name |-> <<"other", "org">>],
                 [wild |-> TRUE, name |-> <<"example", "com">>]>>
SanOther    == <<[wild |-> FALSE, name |-> <<"other", "org">>]>>

Probes == {"ssl", "dns", "serverResponse", "availability", "email", "pageSpeed"}

Ops == {"handshake", "ctlog", "cloudflare", "google",
        "serverResponse", "availability", "email", "pageSpeed"}

DnsOps == {"cloudflare", "google"}

\* The operations whose response body the code reads with response.json().
JsonOps == {"ctlog", "cloudflare", "google", "email", "pageSpeed"}

\* setTimeout(() => controller.abort(), ...) of each operation.
TimeoutMs(o) ==
    CASE o = "handshake" -> 5000
      [] o = "ctlog" -> 10000
      [] o \in DnsOps -> 3000
      [] o = "serverResponse" -> 10000
      [] o = "availability" -> 5000
      [] o = "email" -> 5000
      [] o = "pageSpeed" -> 30000

\* The entry point that runs, and the table of endpoint behaviours it meets:
\* a whole scan against a few behaviours per endpoint ("scan"), one probe
\* function on its own against many ("probe"), and the continuation of
\* handleScan after Promise.all against every class of verdict ("join").
ScanCall     == [fn |-> "handleScan", env |-> "scan"]
ProbeCall(p) == [fn |-> p, env |-> "probe"]
JoinCall     == [fn |-> "handleScan", env |-> "join"]

At(statuses, times) == {[status |-> s, t |-> t] : s \in statuses, t \in times}

\* Elapsed milliseconds at which a DoH request may settle.
DnsTimes(m) == IF m = "probe" THEN {10, 74, 75, 149, 150, 2999} ELSE {20, 160}

\* Responses (status, elapsed ms) the fetch of operation o may resolve with.
ResponseSamples(m, o) ==
    CASE o = "handshake" ->
            At(IF m = "probe" THEN {200, 404} ELSE {200}, {100})
      [] o = "ctlog" ->
            At(IF m = "scan" THEN {200} ELSE {200, 503}, {100})
      [] o = "cloudflare" ->
            IF m = "probe" THEN At({200, 503}, DnsTimes(m))
            ELSE IF m = "join" THEN At({200}, DnsTimes(m))
            ELSE At({200}, {20})
      [] o = "google" ->
            IF m = "probe" THEN At({200, 503}, DnsTimes(m))
            ELSE At({200}, {160})
      [] o = "serverResponse" ->
            IF m = "probe"
            THEN At({200, 301, 404, 503}, {0, 199, 200, 499, 500, 9999})
            ELSE IF m = "join"
            THEN At({200}, {150, 300, 600}) \cup At({404}, {150})
            ELSE At({200}, {150})
      [] o = "availability" ->
            IF m = "probe"
            THEN At({200, 299, 300, 399, 400, 499, 500, 503}, {100})
            ELSE IF m = "join" THEN At({200, 404, 500}, {100})
            ELSE At({200, 500}, {100})
      [] o = "email" ->
            At(IF m = "probe" THEN {200, 404} ELSE {200}, {100})
      [] o = "pageSpeed" ->
            At(IF m = "probe" THEN {200, 429, 500} ELSE {200, 429}, {100})

Failing(errors, times) == {[e |-> e, t |-> t] : e \in errors, t \in times}

\* Errors the fetch of operation o may reject with, other than the abort of
\* its own timer.
ErrorSamples(m, o) ==
    CASE o = "handshake" ->
            Failing(IF m = "probe" THEN {NetworkError, TlsError, CertError}
                    ELSE {TlsError}, {100})
      [] o \in DnsOps ->
            IF m = "probe" THEN Failing({NetworkError}, DnsTimes(m)) ELSE {}
      [] o = "serverResponse" -> Failing({NetworkError}, {100})
      [] o = "availability" ->
            IF m = "scan" THEN {} ELSE Failing({NetworkError}, {100})
      [] OTHER ->
            IF m = "probe" THEN Failing({NetworkError}, {100}) ELSE {}

DnsAnswer(keywords, ip) == [name |-> keywords, type |-> 1, TTL |-> 300, data |-> ip]

DnsFailed   == Json([Status |-> 3])
DnsSigned   == Json([Status |-> 0, AD |-> TRUE,
                     Answer |-> Arr(<<DnsAnswer({"cdn"}, <<93, 184>>)>>)])
DnsUnsigned == Json([Status |-> 0, AD |-> FALSE,
                     Answer |-> Arr(<<DnsAnswer({}, <<93, 184>>),
                                      DnsAnswer({}, <<93, 185>>)>>)])

DnsBodies ==
    { Malformed, Json(Null), DnsFailed, DnsSigned, DnsUnsigned,
      Json([Status |-> 0]),
      Json([Status |-> 0, Answer |-> Arr(<<>>)]),
      Json([Status |-> 0, Answer |-> Str(4)]) }

\* Longest list of certificate records drawn record by record.
MaxCerts == 3

\* Certificate records relative to the clock: still valid, about to expire,
\* expired for days, for an hour, at this very instant, and one issued for
\* another name.
CertSamples ==
    { Cert(SanExact,    Clock - 2000, Clock + 90 * DayTicks),
      Cert(SanWildcard, Clock - 1000, Clock + 10 * DayTicks),
      Cert(SanExact,    Clock - 1000, Clock + 40 * DayTicks),
      Cert(SanExact,    Clock - 2400, Clock - 5 * DayTicks),
      Cert(SanWildcard, Clock - 2300, Clock - 1),
      Cert(SanExact,    Clock - 2200, Clock),
      Cert(SanExact,    Clock - 500,  Clock - 2 * DayTicks),
      Cert(SanOther,    Clock - 400,  Clock + 200 * DayTicks) }

CertLists == UNION {[1..n -> CertSamples] : n \in 0..MaxCerts}

\* k records of other sites ahead of the list, as crt.sh returns for a
\* popular name.
Padding(k) == [i \in 1..k |-> Cert(SanOther, Clock - 300, Clock + 300 * DayTicks)]

PadSamples == {0, CertCap - 1, CertCap}

CtBodies(m) ==
    IF m = "probe"
    THEN {Malformed, Json(Null), Json([error |-> TRUE])}
         \cup {Json(Arr(Padding(k) \o certs)) : k \in PadSamples, certs \in CertLists}
    ELSE IF m = "join"
    THEN { Json(Arr(<<Cert(SanExact, Clock - 1000, Clock + 90 * DayTicks)>>)),
           Json(Arr(<<Cert(SanWildcard, Clock - 1000, Clock + 10 * DayTicks)>>)),
           Json(Arr(<<Cert(SanExact, Clock - 2000, Clock - 5 * DayTicks)>>)),
           Json(Arr(<<Cert(SanExact, Clock - 2000, Clock - 1)>>)) }
    ELSE { Malformed,
           Json(Arr(<<Cert(SanExact, Clock - 2000, Clock - 5 * DayTicks)>>)) }

MxPresent == Json([Status |-> 0, Answer |-> Arr(<<DnsAnswer({}, <<10, 0>>)>>)])
MxAbsent  == Json([Status |-> 0])

EmailBodies == {Malformed, Json(Null), MxAbsent, MxPresent, Json([Status |-> 3])}

\* The performance score is a fraction, here in thousandths.
PageSpeedBodies ==
    { Malformed, Json(Null), Json([audits |-> TRUE]), Json([score |-> 0]),
      Json([score |-> 400]), Json([score |-> 700]), Json([score |-> 950]),
      Json([score |-> 1000]) }

\* Bodies response.json() of operation o may produce.
BodySamples(m, o) ==
    CASE o = "ctlog" -> CtBodies(m)
      [] o = "cloudflare" ->
            IF m = "probe" THEN DnsBodies
            ELSE IF m = "join" THEN {DnsFailed, DnsSigned, DnsUnsigned}
            ELSE {DnsSigned}
      [] o = "google" ->
            IF m = "probe" THEN DnsBodies
            ELSE IF m = "join" THEN {DnsUnsigned}
            ELSE {Malformed, DnsUnsigned}
      [] o = "email" ->
            IF m = "probe" THEN EmailBodies ELSE {MxAbsent, MxPresent}
      [] o = "pageSpeed" ->
            IF m = "probe" THEN PageSpeedBodies
            ELSE IF m = "join"
            THEN {Json([score |-> 494]), Json([score |-> 495]),
                  Json([score |-> 894]), Json([score |-> 895])}
            ELSE {Malformed, Json([score |-> 950])}

\* Milliseconds between the headers and the end of a body that fails to parse.
BodyDelays(m, o, body) ==
    IF m = "probe" /\ o \in DnsOps /\ ~body.parsed THEN {0, 40} ELSE {0}

-----------------------------------------------------------------------------
(* The state of one run.                                                    *)

Pending   == [kind |-> "pending"]
NoOutcome == [kind |-> "none"]
NoReport  == [kind |-> "none"]

\* No rate-limiter call is in progress and no entry is stored.
NoLimiter == [kv |-> [present |-> FALSE, value |-> <<>>], now |-> 0, h |-> <<>>]

IdleOp == [st |-> "idle", timer |-> "none", out |-> NoOutcome, t |-> 0, tb |-> 0]

\* fetch(...) issued with its abort timer armed.
IssuedOp == [st |-> "pending", timer |-> "armed", out |-> NoOutcome, t |-> 0, tb |-> 0]

\* The fetch resolved with response resp after t ms: clearTimeout has run; a
\* function that reads the body of an ok response goes on to await it.
ResolvedOp(o, resp, t) ==
    [st |-> IF o \in JsonOps /\ resp.ok THEN "body" ELSE "done",
     timer |-> "cleared", out |-> resp, t |-> t, tb |-> t]

\* The fetch rejected with error e after t ms; the timer is left armed and its
\* later firing aborts nothing.
RejectedOp(e, t) == [st |-> "done", timer |-> "armed", out |-> e, t |-> t, tb |-> t]

\* The timer fired first: controller.abort() rejected the fetch.
AbortedOp(o) ==
    [st |-> "done", timer |-> "fired", out |-> AbortError,
     t |-> TimeoutMs(o), tb |-> TimeoutMs(o)]

\* response.json() settled tb ms after the start.
BodyOp(op, body, tb) ==
    [st |-> "done", timer |-> op.timer, out |-> WithBody(op.out, body),
     t |-> op.t, tb |-> tb]

\* An operation has returned to its caller.
OpDone(n, o) == n[o].st = "done"

\* The operations of each probe.
OpsOf(p) ==
    CASE p = "ssl" -> {"handshake", "ctlog"}
      [] p = "dns" -> DnsOps
      [] OTHER -> {p}

\* Variant: the handshake is requested whatever the scheme.
firstOpsMutant(p, u) ==
    CASE p = "ssl" -> {"handshake"}
      [] p \in {"dns", "email"} ->
            IF extractHostname(u) = <<>> THEN {} ELSE OpsOf(p)
      [] p \in {"serverResponse", "availability"} ->
            IF newURL(u).kind = "throw" THEN {} ELSE OpsOf(p)
      [] OTHER -> OpsOf(p)

\* The requests probe p has issued when it reaches its first await.
\* A probe returns before its first fetch when it finds no hostname in u, and
\* fetch(u) throws without a request when u is not a URL.
firstOps(p, u) ==
    CASE p = "ssl" -> IF isHttps(u) THEN {"handshake"} ELSE {}
      [] p \in {"dns", "email"} ->
            IF extractHostname(u) = <<>> THEN {} ELSE OpsOf(p)
      [] p \in {"serverResponse", "availability"} ->
            IF newURL(u).kind = "throw" THEN {} ELSE OpsOf(p)
      [] OTHER -> OpsOf(p)

\* What a probe's promise settles to once its operations have returned;
\* Pending while it still awaits one.
probeResult(p, u, n) ==
    CASE p = "ssl" ->
            IF ~isHttps(u) THEN checkSSL(u, NoOutcome, NoOutcome, Clock)
            ELSE IF OpDone(n, "handshake") /\ n["handshake"].out.kind = "error"
            THEN checkSSL(u, n["handshake"].out, NoOutcome, Clock)
            ELSE IF OpDone(n, "handshake") /\ OpDone(n, "ctlog")
            THEN checkSSL(u, n["handshake"].out, n["ctlog"].out, Clock)
            ELSE Pending
      [] p = "dns" ->
            IF extractHostname(u) = <<>>
            THEN checkDNSSpeed(u, NoOutcome, NoOutcome)
            ELSE IF OpDone(n, "cloudflare") /\ OpDone(n, "google")
            THEN checkDNSSpeed(u,
                     queryDNSProvider(n["cloudflare"].out, n["cloudflare"].t,
                                      n["cloudflare"].tb),
                     queryDNSProvider(n["google"].out, n["google"].t,
                                      n["google"].tb))
            ELSE Pending
      [] p = "serverResponse" ->
            IF newURL(u).kind = "throw"
            THEN checkServerResponse(newURL(u).error, 0)
            ELSE IF OpDone(n, p) THEN checkServerResponse(n[p].out, n[p].t)
            ELSE Pending
      [] p = "availability" ->
            IF newURL(u).kind = "throw" THEN checkAvailability(newURL(u).error)
            ELSE IF OpDone(n, p) THEN checkAvailability(n[p].out)
            ELSE Pending
      [] p = "email" ->
            IF extractHostname(u) = <<>> THEN checkEmailConfig(u, NoOutcome)
            ELSE IF OpDone(n, p) THEN checkEmailConfig(u, n[p].out)
            ELSE Pending
      [] p = "pageSpeed" ->
            IF OpDone(n, p) THEN checkPageSpeed(n[p].out) ELSE Pending

\* The probe functions the entry point has called.
Started(c) == IF c.fn = "handleScan" THEN Probes ELSE {c.fn}

\* The promises after a callback has left the operations in state n: every
\* called probe whose operations have all returned settles, once.
settle(c, u, r, n) ==
    [p \in Probes |->
        IF r[p] # Pending \/ p \notin Started(c) THEN r[p]
        ELSE probeResult(p, u, n)]

\* Variant: a failed handshake is tried again.
afterHandshakeMutant(n, c) ==
    IF n["handshake"].st = "done" /\ n["handshake"].out.kind = "error"
    THEN [net2 |-> [n EXCEPT !["handshake"] = IssuedOp],
          reqs2 |-> [c EXCEPT !["handshake"] = @ + 1]]
    ELSE IF n["handshake"].st = "done" /\ n["handshake"].out.kind = "response"
            /\ n["ctlog"].st = "idle"
    THEN [net2 |-> [n EXCEPT !["ctlog"] = IssuedOp],
          reqs2 |-> [c EXCEPT !["ctlog"] = @ + 1]]
    ELSE [net2 |-> n, reqs2 |-> c]

\* After a successful handshake checkSSL calls getCertificateFromCTLogs,
\* which issues the crt.sh request.
afterHandshake(n, c) ==
    IF n["handshake"].st = "done" /\ n["handshake"].out.kind = "response"
       /\ n["ctlog"].st = "idle"
    THEN [net2 |-> [n EXCEPT !["ctlog"] = IssuedOp],
          reqs2 |-> [c EXCEPT !["ctlog"] = @ + 1]]
    ELSE [net2 |-> n, reqs2 |-> c]

\* Variant: a timer that fires aborts every pending request of the scan.
ContinueMutant(o, opNew) ==
    LET n1 == [x \in Ops |->
                 IF x = o THEN opNew
                 ELSE IF opNew.timer = "fired" /\ net[x].st = "pending"
                 THEN AbortedOp(x)
                 ELSE net[x]]
        a == afterHandshake(n1, reqs)
    IN  /\ net' = a.net2
        /\ reqs' = a.reqs2
        /\ res' = settle(call, url, res, a.net2)

\* The continuation that runs after operation o changed to state opNew.
Continue(o, opNew) ==
    LET n1 == [net EXCEPT ![o] = opNew]
        a == afterHandshake(n1, reqs)
    IN  /\ net' = a.net2
        /\ reqs' = a.reqs2
        /\ res' = settle(call, url, res, a.net2)

\* The called probe functions run, in turn, each to its first await.
Issue(c, u) ==
    LET first == UNION {firstOps(p, u) : p \in Started(c)}
        n1 == [o \in Ops |-> IF o \in first THEN IssuedOp ELSE IdleOp]
    IN  /\ net' = n1
        /\ reqs' = [o \in Ops |-> IF o \in first THEN reqs[o] + 1 ELSE reqs[o]]
        /\ res' = settle(c, u, res, n1)

\* validationErrorResponse(message)
validationErrorResponse(message) ==
    [kind |-> "error", status |-> 400, error |-> message]

Init ==
    /\ phase = "start"
    /\ call = ScanCall
    /\ url \in Targets
    /\ net = [o \in Ops |-> IdleOp]
    /\ reqs = [o \in Ops |-> 0]
    /\ res = [p \in Probes |-> Pending]
    /\ report = NoReport
    /\ limiter = NoLimiter

\* The scan endpoint from the url parameter to handleScan's
\* await Promise.all([...]): a missing or invalid target is answered at once.
FanOut ==
    /\ phase = "start"
    /\ call.fn = "handleScan"
    /\ LET validation == validateAndNormalizeUrl(url)
       IN  IF url = UrlString("", <<>>)
           THEN /\ report' = validationErrorResponse("Missing url parameter")
                /\ phase' = "done"
                /\ UNCHANGED <<url, net, reqs, res>>
           ELSE IF ~validation.isValid
           THEN /\ report' = validationErrorResponse(validation.error)
                /\ phase' = "done"
                /\ UNCHANGED <<url, net, reqs, res>>
           ELSE /\ url' = validation.normalizedUrl
                /\ Issue(call, validation.normalizedUrl)
                /\ phase' = "probing"
                /\ UNCHANGED report
    /\ UNCHANGED <<call, limiter>>

\* The fetch of operation o resolves with a response.
FetchResolves(o) ==
    /\ phase = "probing"
    /\ net[o].st = "pending"
    /\ \E r \in ResponseSamples(call.env, o) :
          Continue(o, ResolvedOp(o, Response(r.status), r.t))
    /\ UNCHANGED <<phase, url, report, call, limiter>>

\* The fetch of operation o rejects (connection or TLS failure).
FetchRejects(o) ==
    /\ phase = "probing"
    /\ net[o].st = "pending"
    /\ \E f \in ErrorSamples(call.env, o) : Continue(o, RejectedOp(f.e, f.t))
    /\ UNCHANGED <<phase, url, report, call, limiter>>

\* The timer of operation o fires while its fetch is pending:
\* controller.abort() rejects that fetch with an AbortError.
TimerFires(o) ==
    /\ phase = "probing"
    /\ net[o].st = "pending"
    /\ net[o].timer = "armed"
    /\ Continue(o, AbortedOp(o))
    /\ UNCHANGED <<phase, url, report, call, limiter>>

\* response.json() of operation o settles: the body parsed or did not.
BodyArrives(o) ==
    /\ phase = "probing"
    /\ net[o].st = "body"
    /\ \E body \in BodySamples(call.env, o) :
          \E d \in BodyDelays(call.env, o, body) :
              Continue(o, BodyOp(net[o], body, net[o].t + d))
    /\ UNCHANGED <<phase, url, report, call, limiter>>

\* Variant: the availability and server-response verdicts change places.
buildReportMutant(u, r) ==
    LET checks ==
            [ssl |-> r["ssl"].v,
             dns |-> r["dns"].v,
             serverResponse |-> r["availability"].v,
             pageSpeed |-> r["pageSpeed"].v,
             mobile |-> deriveMobileCheck(r["pageSpeed"].v),
             https |-> deriveHttpsCheck(r["ssl"].v, u),
             availability |-> r["serverResponse"].v,
             email |-> r["email"].v]
        overallScore == calculateOverallScore(checks)
    IN  [kind |-> "report", status |-> 200, url |-> u,
         overallScore |-> overallScore,
         scoreLevel |-> getScoreLevel(overallScore).level,
         scoreColor |-> getScoreLevel(overallScore).color,
         checks |-> checks,
         criticalIssues |-> identifyCriticalIssues(checks),
         recommendations |-> generateRecommendations(checks)]

\* The object handleScan builds from the six settled probes.
buildReport(u, r) ==
    IF \E p \in Probes : r[p].kind = "throw"
    THEN [kind |-> "error", status |-> 500]
    ELSE LET checks ==
                 [ssl |-> r["ssl"].v,
                  dns |-> r["dns"].v,
                  serverResponse |-> r["serverResponse"].v,
                  pageSpeed |-> r["pageSpeed"].v,
                  mobile |-> deriveMobileCheck(r["pageSpeed"].v),
                  https |-> deriveHttpsCheck(r["ssl"].v, u),
                  availability |-> r["availability"].v,
                  email |-> r["email"].v]
             overallScore == calculateOverallScore(checks)
         IN  [kind |-> "report", status |-> 200, url |-> u,
              overallScore |-> overallScore,
              scoreLevel |-> getScoreLevel(overallScore).level,
              scoreColor |-> getScoreLevel(overallScore).color,
              checks |-> checks,
              criticalIssues |-> identifyCriticalIssues(checks),
              recommendations |-> generateRecommendations(checks)]

\* Promise.all has resolved: handleScan derives the two checks and responds.
Aggregate ==
    /\ phase = "probing"
    /\ call.fn = "handleScan"
    /\ \A p \in Probes : res[p] # Pending
    /\ report' = buildReport(url, res)
    /\ phase' = "done"
    /\ UNCHANGED <<url, net, reqs, res, call, limiter>>

Next ==
    \/ FanOut
    \/ \E o \in Ops : FetchResolves(o)
    \/ \E o \in Ops : FetchRejects(o)
    \/ \E o \in Ops : TimerFires(o)
    \/ \E o \in JsonOps : BodyArrives(o)
    \/ Aggregate

Spec == Init /\ [][Next]_vars

\* A callback of the program that is ready to run: a step of handleScan or a
\* timer that is due.
Ready == FanOut \/ Aggregate \/ \E o \in Ops : TimerFires(o)

\* The event loop runs a ready callback.  What the remote endpoints do, and
\* when, is not the program's to decide.
FairSpec == Spec /\ WF_vars(Ready)

-----------------------------------------------------------------------------
(* One probe function called on its own.                                    *)

InitProbe ==
    /\ phase = "start"
    /\ call \in {ProbeCall(p) : p \in Probes}
    /\ url \in Urls \cup {BareHost}
    /\ net = [o \in Ops |-> IdleOp]
    /\ reqs = [o \in Ops |-> 0]
    /\ res = [p \in Probes |-> Pending]
    /\ report = NoReport
    /\ limiter = NoLimiter

\* The probe function is called and runs to its first await.
CallProbe ==
    /\ phase = "start"
    /\ call.fn \in Probes
    /\ Issue(call, url)
    /\ phase' = "probing"
    /\ UNCHANGED <<url, report, call, limiter>>

NextProbe ==
    \/ CallProbe
    \/ \E o \in Ops : FetchResolves(o)
    \/ \E o \in Ops : FetchRejects(o)
    \/ \E o \in Ops : TimerFires(o)
    \/ \E o \in JsonOps : BodyArrives(o)

SpecProbe == InitProbe /\ [][NextProbe]_vars

-----------------------------------------------------------------------------
(* handleScan from the moment Promise.all resolves.                         *)

\* The ways operation o can have returned.
FinalOps(m, o) ==
    {ResolvedOp(o, Response(r.status), r.t) :
        r \in {x \in ResponseSamples(m, o) :
                  ~(o \in JsonOps /\ Response(x.status).ok)}}
    \cup {BodyOp(ResolvedOp(o, Response(r.status), r.t), body, r.t) :
            r \in {x \in ResponseSamples(m, o) :
                      o \in JsonOps /\ Response(x.status).ok},
            body \in IF o \in JsonOps THEN BodySamples(m, o) ELSE {}}
    \cup {RejectedOp(f.e, f.t) : f \in ErrorSamples(m, o)}
    \cup {AbortedOp(o)}

\* The handshake and the lookup of checkSSL: no request for an http URL, no
\* lookup after a failed handshake.
SslFinals(m, u) ==
    IF ~isHttps(u) THEN {[handshake |-> IdleOp, ctlog |-> IdleOp]}
    ELSE {[handshake |-> h, ctlog |-> IdleOp] :
             h \in {x \in FinalOps(m, "handshake") : x.out.kind = "error"}}
         \cup {[handshake |-> h, ctlog |-> c] :
                 h \in {x \in FinalOps(m, "handshake") : x.out.kind = "response"},
                 c \in FinalOps(m, "ctlog")}

FinalNets(m, u) ==
    {[o \in Ops |->
        CASE o = "handshake" -> s.handshake
          [] o = "ctlog" -> s.ctlog
          [] o = "cloudflare" -> a
          [] o = "google" -> g
          [] o = "serverResponse" -> sr
          [] o = "availability" -> av
          [] o = "email" -> em
          [] o = "pageSpeed" -> ps] :
        s \in SslFinals(m, u),
        a \in FinalOps(m, "cloudflare"), g \in FinalOps(m, "google"),
        sr \in FinalOps(m, "serverResponse"), av \in FinalOps(m, "availability"),
        em \in FinalOps(m, "email"), ps \in FinalOps(m, "pageSpeed")}

InitJoin ==
    /\ phase = "probing"
    /\ call = JoinCall
    /\ url \in Urls
    /\ net \in FinalNets(call.env, url)
    /\ reqs = [o \in Ops |-> IF net[o].st = "idle" THEN 0 ELSE 1]
    /\ res = settle(call, url, [p \in Probes |-> Pending], net)
    /\ report = NoReport
    /\ limiter = NoLimiter

NextJoin == Aggregate

SpecJoin == InitJoin /\ [][NextJoin]_vars

-----------------------------------------------------------------------------
(* getScoreLevel called on its own, on any integer around the score range.  *)

\* How far below 0 and above 100 the scores tried reach.
ScoreMargin == 20

LevelCall(score) == [fn |-> "getScoreLevel", env |-> "level", score |-> score]

InitLevel ==
    /\ phase = "start"
    /\ call \in {LevelCall(x) : x \in (0 - ScoreMargin)..(100 + ScoreMargin)}
    /\ url = UrlString("", <<>>)
    /\ net = [o \in Ops |-> IdleOp]
    /\ reqs = [o \in Ops |-> 0]
    /\ res = [p \in Probes |-> Pending]
    /\ report = NoReport
    /\ limiter = NoLimiter

CallGetScoreLevel ==
    /\ phase = "start"
    /\ call.fn = "getScoreLevel"
    /\ report' = [kind |-> "level", score |-> call.score,
                  level |-> getScoreLevel(call.score).level,
                  color |-> getScoreLevel(call.score).color]
    /\ phase' = "done"
    /\ UNCHANGED <<url, net, reqs, res, call, limiter>>

NextLevel == CallGetScoreLevel

SpecLevel == InitLevel /\ [][NextLevel]_vars

-----------------------------------------------------------------------------
(* utils/rate-limit.ts: requests of one client IP, handled concurrently.    *)

DEFAULT_CONFIG == [maxRequests |-> 10, windowSeconds |-> 60]

\* The calls of checkRateLimit that may be in progress together.
NumHandlers == 2

\* The clock moves in steps of TickMs, MaxTicks times at most.
TickMs == 20000
MaxTicks == 4

\* The entry k earlier requests, one millisecond apart, have left in the store.
Preloaded(k) == [i \in 1..k |-> i]

InitLimit ==
    /\ phase = "start"
    /\ call = [fn |-> "checkRateLimit", env |-> "limit"]
    /\ url = UrlString("", <<>>)
    /\ net = [o \in Ops |-> IdleOp]
    /\ reqs = [o \in Ops |-> 0]
    /\ res = [p \in Probes |-> Pending]
    /\ report = NoReport
    /\ \E k \in {0, DEFAULT_CONFIG.maxRequests - 1, DEFAULT_CONFIG.maxRequests} :
          limiter = [kv |-> [present |-> k > 0, value |-> Preloaded(k)],
                     earlier |-> Preloaded(k),
                     now |-> 1000,
                     h |-> [i \in 1..NumHandlers |->
                              [pc |-> "idle", now |-> 0, valid |-> <<>>,
                               result |-> [allowed |-> FALSE, remaining |-> 0,
                                           resetAt |-> 0]]]]

\* checkRateLimit(kv, ip) up to its await kv.get(key, 'json').
CheckRateLimit(i) ==
    /\ call.fn = "checkRateLimit"
    /\ limiter.h[i].pc = "idle"
    /\ limiter' = [limiter EXCEPT !.h[i].pc = "get", !.h[i].now = limiter.now]
    /\ UNCHANGED <<phase, url, net, reqs, res, report, call>>

\* kv.get returned: the timestamps are filtered and counted; over the limit
\* the call returns, otherwise it adds its own timestamp and awaits kv.put.
KvGetReturns(i) ==
    /\ call.fn = "checkRateLimit"
    /\ limiter.h[i].pc = "get"
    /\ LET now == limiter.h[i].now
           windowMs == DEFAULT_CONFIG.windowSeconds * 1000
           timestamps == IF limiter.kv.present THEN limiter.kv.value ELSE <<>>
           validTimestamps == SelectSeq(timestamps, LAMBDA ts : now - ts < windowMs)
       IN  IF Len(validTimestamps) >= DEFAULT_CONFIG.maxRequests
           THEN limiter' =
                  [limiter EXCEPT
                     !.h[i].pc = "done",
                     !.h[i].valid = validTimestamps,
                     !.h[i].result =
                        [allowed |-> FALSE, remaining |-> 0,
                         resetAt |-> (MinSeq(validTimestamps) + windowMs) \div 1000]]
           ELSE limiter' =
                  [limiter EXCEPT
                     !.h[i].pc = "put",
                     !.h[i].valid = Append(validTimestamps, now)]
    /\ UNCHANGED <<phase, url, net, reqs, res, report, call>>

\* kv.put stored the call's list and returned: the request is allowed.
KvPutReturns(i) ==
    /\ call.fn = "checkRateLimit"
    /\ limiter.h[i].pc = "put"
    /\ LET now == limiter.h[i].now
           windowMs == DEFAULT_CONFIG.windowSeconds * 1000
           validTimestamps == limiter.h[i].valid
       IN  limiter' =
             [limiter EXCEPT
                !.kv = [present |-> TRUE, value |-> validTimestamps],
                !.h[i].pc = "done",
                !.h[i].result =
                   [allowed |-> TRUE,
                    remaining |-> DEFAULT_CONFIG.maxRequests - Len(validTimestamps),
                    resetAt |-> (now + windowMs) \div 1000]]
    /\ UNCHANGED <<phase, url, net, reqs, res, report, call>>

\* Time passes.
Tick ==
    /\ call.fn = "checkRateLimit"
    /\ limiter.now < 1000 + MaxTicks * TickMs
    /\ limiter' = [limiter EXCEPT !.now = @ + TickMs]
    /\ UNCHANGED <<phase, url, net, reqs, res, report, call>>

NextLimit ==
    \/ \E i \in 1..NumHandlers : CheckRateLimit(i)
    \/ \E i \in 1..NumHandlers : KvGetReturns(i)
    \/ \E i \in 1..NumHandlers : KvPutReturns(i)
    \/ Tick

SpecLimit == InitLimit /\ [][NextLimit]_vars

-----------------------------------------------------------------------------
(* Properties.                                                              *)

Returned == phase = "done" /\ report.kind = "report"

\* The scan was answered with a validation error.
Rejected == phase = "done" /\ report.kind = "error" /\ report.status = 400

\* C1: for every scan that returns a report, whatever verdicts the six probes
\* and the two derived checks produced, overallScore is exactly the sum of the
\* eight check scores and lies between 0 and 100.
C1_OverallScoreIsSum ==
    Returned =>
        LET c == report.checks
        IN  /\ report.overallScore =
                 c.ssl.score + c.dns.score + c.serverResponse.score
                 + c.pageSpeed.score + c.mobile.score + c.https.score
                 + c.availability.score + c.email.score
            /\ report.overallScore >= 0
            /\ report.overallScore <= 100

\* A report of mixed verdicts: warnings from ssl, dns and availability.
C1_MixedReport ==
    /\ Returned
    /\ report.checks.ssl.score = 5
    /\ report.checks.dns.score = 5
    /\ report.checks.availability.score = 8
    /\ report.checks.email.score = 5
    /\ report.overallScore > 0

\* No operation of the called probe p is still awaited.
AllReturned(p, n) == \A o \in OpsOf(p) : n[o].st \in {"idle", "done"}

\* C2: each probe returns exactly one verdict with status pass, warn or fail
\* for every outcome of its network operations (any status, connection error,
\* TLS error, timeout abort, malformed body): once its operations have
\* returned it has settled, with a returned verdict and never a thrown error,
\* and a settled verdict never changes.
C2_ProbeAlwaysReturnsVerdict ==
    [][\A p \in Probes :
          /\ res[p] # Pending => res'[p] = res[p]
          /\ res'[p] # Pending =>
                /\ res'[p].kind = "return"
                /\ res'[p].v.status \in {"pass", "warn", "fail"}
          /\ (call.fn = p /\ phase' = "probing" /\ AllReturned(p, net'))
                => res'[p] # Pending]_vars

\* checkDNSSpeed has returned after a provider answered with an Answer that is
\* not an array, which makes the try block throw.
C2_ThrowCaught ==
    /\ call.fn = "dns"
    /\ res["dns"] # Pending
    /\ net["cloudflare"].out = WithBody(Response(200),
                                   Json([Status |-> 0, Answer |-> Str(4)]))
    /\ res["dns"].v.message = "DNS check failed"

AllMax(c) ==
    /\ c.ssl.score = 10 /\ c.dns.score = 10 /\ c.serverResponse.score = 15
    /\ c.pageSpeed.score = 15 /\ c.mobile.score = 15 /\ c.https.score = 10
    /\ c.availability.score = 15 /\ c.email.score = 10

\* C3, as stated: whenever all eight checks carry their maximum score the
\* report has overallScore 100, the EXCELLENT level, the color #28a745, and
\* recommendations is exactly the single fallback positive message.
C3_AllMaxGivesFallbackOnly ==
    (Returned /\ AllMax(report.checks)) =>
        /\ report.overallScore = 100
        /\ report.scoreLevel = "EXCELLENT - Great website health!"
        /\ report.scoreColor = "#28a745"
        /\ report.recommendations = <<RecGreatJob>>

\* C3, amended: whenever all eight checks carry their maximum score the
\* report has overallScore 100, the EXCELLENT level and the color #28a745;
\* recommendations is the single fallback positive message when the dns check
\* reports dnssecValid = true, and the single DNSSEC recommendation when it
\* reports dnssecValid = false.
C3_AllMaxGivesFallbackUnlessDnssecOff ==
    (Returned /\ AllMax(report.checks)) =>
        /\ report.overallScore = 100
        /\ report.scoreLevel = "EXCELLENT - Great website health!"
        /\ report.scoreColor = "#28a745"
        /\ report.recommendations =
              IF report.checks.dns.details.dnssecValid
              THEN <<RecGreatJob>> ELSE <<RecDnssec>>

\* A perfect score with the resolver's AD flag off.
C3_PerfectScoreDnssecOff ==
    /\ Returned
    /\ AllMax(report.checks)
    /\ report.checks.dns.details.dnssecValid = FALSE
    /\ report.recommendations = <<RecDnssec>>

\* checkDNSSpeed has returned; Cloudflare answered status 0 with at least one
\* answer record and the Google request was aborted by its timer.
C4_OnlyCloudflareAnswered ==
    /\ call.fn = "dns"
    /\ res["dns"] # Pending
    /\ net["cloudflare"].out.kind = "response"
    /\ "body" \in DOMAIN net["cloudflare"].out
    /\ net["cloudflare"].out.body.parsed
    /\ ~IsNull(net["cloudflare"].out.body.value)
    /\ net["cloudflare"].out.body.value.Status = 0
    /\ "Answer" \in DOMAIN net["cloudflare"].out.body.value
    /\ IsArr(net["cloudflare"].out.body.value.Answer)
    /\ Len(net["cloudflare"].out.body.value.Answer.items) >= 1
    /\ net["google"].out = AbortError

\* C4, as stated: when provider A returns status 0 with at least one answer
\* and provider B times out, the verdict is not fail and
\* minTime = maxTime = averageTime = A's elapsed time, for every elapsed time.
C4_SingleProviderNeverFails ==
    C4_OnlyCloudflareAnswered =>
        LET v == res["dns"].v
        IN  /\ v.status # "fail"
            /\ v.details.minTime = net["cloudflare"].t
            /\ v.details.maxTime = net["cloudflare"].t
            /\ v.details.averageTime = net["cloudflare"].t

\* C4, amended: when provider A returns status 0 with at least one answer and
\* provider B times out, the verdict is built from A's data alone with
\* minTime = maxTime = averageTime = A's elapsed time; it is pass/10 when that
\* time is below 75 ms, warn/5 from 75 to 149 ms, and fail/0 from 150 ms on.
C4_SingleProviderGradedByItsTime ==
    C4_OnlyCloudflareAnswered =>
        LET v == res["dns"].v
            t == net["cloudflare"].t
            data == net["cloudflare"].out.body.value
        IN  /\ v.details.minTime = t
            /\ v.details.maxTime = t
            /\ v.details.averageTime = t
            /\ v.details.responseTime = t
            /\ v.details.records = Len(data.Answer.items)
            /\ v.details.dnssecValid = ("AD" \in DOMAIN data /\ data.AD = TRUE)
            /\ t < 75 => (v.status = "pass" /\ v.score = 10)
            /\ (t >= 75 /\ t < 150) => (v.status = "warn" /\ v.score = 5)
            /\ t >= 150 => (v.status = "fail" /\ v.score = 0)

\* Cloudflare alone answered, after 149 ms: still a warning.
C4_AnsweredAt149 ==
    /\ C4_OnlyCloudflareAnswered
    /\ net["cloudflare"].t = 149
    /\ res["dns"].v.status = "warn"
    /\ res["dns"].v.details.maxTime = 149

\* checkSSL has returned after a successful handshake.
HandshakeSucceeded ==
    /\ call.fn = "ssl"
    /\ isHttps(url)
    /\ res["ssl"] # Pending
    /\ net["handshake"].out.kind = "response"

\* ... and crt.sh answered with an array of certificate records.
CtAnswered ==
    /\ HandshakeSucceeded
    /\ net["ctlog"].out.kind = "response"
    /\ "body" \in DOMAIN net["ctlog"].out
    /\ net["ctlog"].out.body.parsed
    /\ IsArr(net["ctlog"].out.body.value)

CtRecords == net["ctlog"].out.body.value.items

\* The positions, within the first 50 records, whose SAN list matches the
\* hostname; those of them that are still valid.
MatchingAt == {i \in 1..Len(CtRecords) : i <= CertCap /\ certMatches(CtRecords[i], url.host)}
ValidAt    == {i \in MatchingAt : CtRecords[i].not_after > Clock}

\* C5: whenever every record that matches the hostname is expired, the
\* daysUntilExpiry reported for the selected record is negative and equals
\* -floor((now - latest notAfter) / 86400000), latest notAfter being the
\* greatest notAfter among the matching records.
C5_ExpiredDaysAreNegative ==
    (CtAnswered /\ MatchingAt # {} /\ ValidAt = {}) =>
        LET latest == CHOOSE i \in MatchingAt :
                          \A j \in MatchingAt :
                              CtRecords[i].not_after >= CtRecords[j].not_after
            d == res["ssl"].v.details
        IN  /\ "daysUntilExpiry" \in DOMAIN d
            /\ d.daysUntilExpiry < 0
            /\ d.daysUntilExpiry =
                  0 - ((Clock - CtRecords[latest].not_after) \div DayTicks)

\* C6: among the records within the first 50 whose SAN list matches the
\* hostname, if at least one is still valid the selected record is a
\* still-valid one with the most recent notBefore (never an expired one);
\* only if none is still valid is the one with the most recent notAfter
\* selected.
C6_SelectsNewestValidElseLatestExpired ==
    (CtAnswered /\ MatchingAt # {}) =>
        LET d == res["ssl"].v.details
        IN  /\ "expiresAt" \in DOMAIN d
            /\ IF ValidAt # {}
               THEN /\ \E i \in ValidAt :
                         /\ \A j \in ValidAt :
                               CtRecords[i].not_before >= CtRecords[j].not_before
                         /\ d.expiresAt = CtRecords[i].not_after
                    /\ "expired" \notin DOMAIN d
               ELSE \E i \in MatchingAt :
                         /\ \A j \in MatchingAt :
                               CtRecords[i].not_after >= CtRecords[j].not_after
                         /\ d.expiresAt = CtRecords[i].not_after

\* crt.sh listed an expired record, an older valid one and a newer valid
\* wildcard record: the wildcard record is reported.
C6_WildcardOverExpired ==
    /\ CtAnswered
    /\ CtRecords = << Cert(SanExact, Clock - 2400, Clock - 5 * DayTicks),
                      Cert(SanExact, Clock - 2000, Clock + 90 * DayTicks),
                      Cert(SanWildcard, Clock - 1000, Clock + 10 * DayTicks) >>
    /\ res["ssl"].v.details.expiresAt = Clock + 10 * DayTicks
    /\ res["ssl"].v.details.expiringSoon

Graded(v, status, score) == v.status = status /\ v.score = score

\* C7: after a successful handshake the ssl verdict follows the CT result
\* only: a selected record with daysUntilExpiry < 0 gives warn/5, one
\* expiring soon (0 to 30 days) gives warn/8, any other gives pass/10; when
\* the lookup is unreachable, fails, returns no records or no record matches,
\* the verdict is pass/10 with certTransparency = false.
C7_VerdictFollowsCT ==
    HandshakeSucceeded =>
        LET v == res["ssl"].v
            d == v.details
        IN  IF CtAnswered /\ MatchingAt # {}
            THEN /\ "daysUntilExpiry" \in DOMAIN d
                 /\ d.certTransparency = TRUE
                 /\ d.daysUntilExpiry < 0 => Graded(v, "warn", 5)
                 /\ (d.daysUntilExpiry >= 0 /\ d.daysUntilExpiry <= 30)
                       => Graded(v, "warn", 8)
                 /\ d.daysUntilExpiry > 30 => Graded(v, "pass", 10)
            ELSE /\ Graded(v, "pass", 10)
                 /\ d.certTransparency = FALSE

\* C8: for a URL with the http scheme the ssl verdict is fail/0 and the
\* derived https verdict is fail/0 whatever the other probes return, and the
\* certificate probe issues no handshake and no CT request.
C8_HttpFailsWithoutRequests ==
    (~isHttps(url) /\ ~Rejected) =>
        /\ reqs["handshake"] = 0
        /\ reqs["ctlog"] = 0
        /\ phase # "start" =>
              (res["ssl"].kind = "return" /\ Graded(res["ssl"].v, "fail", 0))
        /\ Returned =>
              /\ Graded(report.checks.ssl, "fail", 0)
              /\ Graded(report.checks.https, "fail", 0)

\* A report on an http URL whose other probes all passed.
C8_HttpReportOthersPass ==
    /\ Returned
    /\ ~isHttps(url)
    /\ report.checks.dns.status = "pass"
    /\ report.checks.serverResponse.status = "pass"
    /\ report.checks.availability.status = "pass"
    /\ report.checks.pageSpeed.status = "pass"
    /\ report.checks.https.score = 0

\* C9: with every due timer firing, every scan that passed validation
\* eventually returns its report, whatever the remote endpoints do, an
\* endpoint that never finishes sending its response body included.
C9_ScanEventuallyReturns == <>(phase = "done")

\* C10: a timeout of the PageSpeed API call, a non-success HTTP status or any
\* other fetch error always yields warn with score 8, never fail.
C10_PageSpeedDegradesToWarn ==
    (/\ call.fn = "pageSpeed"
     /\ res["pageSpeed"] # Pending
     /\ \/ net["pageSpeed"].out.kind = "error"
        \/ ~net["pageSpeed"].out.ok) =>
        /\ res["pageSpeed"].kind = "return"
        /\ Graded(res["pageSpeed"].v, "warn", 8)

\* checkPageSpeed has returned after its 30 s timer aborted the request.
C10_TimedOut ==
    /\ call.fn = "pageSpeed"
    /\ res["pageSpeed"] # Pending
    /\ net["pageSpeed"].out = AbortError
    /\ net["pageSpeed"].timer = "fired"
    /\ res["pageSpeed"].v.score = 8

\* The lookup gave checkSSL no certificate data: crt.sh was down, failed,
\* sent something unparsable, or sent no records.
CtUnavailable ==
    /\ HandshakeSucceeded
    /\ \/ net["ctlog"].out.kind = "error"
       \/ ~net["ctlog"].out.ok
       \/ ~net["ctlog"].out.body.parsed
       \/ ~IsArr(net["ctlog"].out.body.value)
       \/ Len(net["ctlog"].out.body.value.items) = 0

PageSpeedReturned == call.fn = "pageSpeed" /\ res["pageSpeed"] # Pending

\* The PageSpeed API was down, failed or sent something unparsable.
PageSpeedUnavailable ==
    /\ PageSpeedReturned
    /\ \/ net["pageSpeed"].out.kind = "error"
       \/ ~net["pageSpeed"].out.ok
       \/ ~net["pageSpeed"].out.body.parsed

\* The PageSpeed API answered 200 with an object that has no performance score.
PageSpeedScoreMissing ==
    /\ PageSpeedReturned
    /\ net["pageSpeed"].out.kind = "response"
    /\ net["pageSpeed"].out.ok
    /\ net["pageSpeed"].out.body.parsed
    /\ ~IsNull(net["pageSpeed"].out.body.value)
    /\ "score" \notin DOMAIN net["pageSpeed"].out.body.value

\* C11, as stated: whenever a third-party source is unavailable or returns
\* malformed data (CT log empty, down or unparsable; performance API non-200
\* or a success response lacking the performance score) the affected probe's
\* verdict is pass or warn, never fail.
C11_UpstreamTroubleNeverFails ==
    /\ CtUnavailable => res["ssl"].v.status \in {"pass", "warn"}
    /\ (PageSpeedUnavailable \/ PageSpeedScoreMissing)
          => res["pageSpeed"].v.status \in {"pass", "warn"}

\* C11, amended: a CT log that is empty, down or unparsable gives ssl pass/10
\* with certTransparency = false; a performance API that is down, non-200 or
\* unparsable gives warn/8; a success response lacking the performance score
\* is read as score 0 and gives fail/5.
C11_UpstreamTroubleGraded ==
    /\ CtUnavailable =>
          /\ Graded(res["ssl"].v, "pass", 10)
          /\ res["ssl"].v.details.certTransparency = FALSE
    /\ PageSpeedUnavailable => Graded(res["pageSpeed"].v, "warn", 8)
    /\ PageSpeedScoreMissing =>
          /\ Graded(res["pageSpeed"].v, "fail", 5)
          /\ res["pageSpeed"].v.details.performanceScore = 0

\* A 200 answer without a score has been graded as poor performance.
C11_MissingScoreFails ==
    /\ PageSpeedScoreMissing
    /\ res["pageSpeed"].v.message = "Poor performance"

\* The provider query of operation o succeeded: a parsed body with Status 0.
DnsOk(o) ==
    /\ net[o].out.kind = "response"
    /\ "body" \in DOMAIN net[o].out
    /\ net[o].out.body.parsed
    /\ ~IsNull(net[o].out.body.value)
    /\ "Status" \in DOMAIN net[o].out.body.value
    /\ net[o].out.body.value.Status = 0

\* checkDNSSpeed, called on its own, queried both providers and has returned.
DnsReturned ==
    /\ call.fn = "dns"
    /\ res["dns"] # Pending
    /\ \A o \in DnsOps : OpDone(net, o)

\* The elapsed times of the successful providers: their sum and their number.
DnsOkSum == (IF DnsOk("cloudflare") THEN net["cloudflare"].t ELSE 0)
            + (IF DnsOk("google") THEN net["google"].t ELSE 0)
DnsOkCount == Cardinality({o \in DnsOps : DnsOk(o)})

DnsRawTime(o) ==
    IF net[o].out.kind = "response" /\ "body" \in DOMAIN net[o].out
       /\ ~net[o].out.body.parsed
    THEN net[o].tb ELSE net[o].t

HasAnswers(data) ==
    /\ "Answer" \in DOMAIN data
    /\ IF IsArr(data.Answer) THEN Len(data.Answer.items) > 0
       ELSE data.Answer.length > 0

\* C13: the record set analysed is provider A's whenever A returned status 0,
\* otherwise provider B's when B returned status 0; if neither did, the
\* verdict is fail/0 'DNS lookup failed on all providers' with responseTime
\* the minimum of the two raw elapsed times; if the preferred record set has
\* no answer records the verdict is fail/0 'DNS records not found', even when
\* the other provider returned answers.
C13_DnsReconciliation ==
    DnsReturned =>
        LET v == res["dns"].v
            preferred == IF DnsOk("cloudflare")
                         THEN net["cloudflare"].out.body.value
                         ELSE net["google"].out.body.value
        IN  IF ~DnsOk("cloudflare") /\ ~DnsOk("google")
            THEN /\ Graded(v, "fail", 0)
                 /\ v.message = "DNS lookup failed on all providers"
                 /\ v.details.responseTime =
                       Min2(DnsRawTime("cloudflare"), DnsRawTime("google"))
            ELSE IF ~HasAnswers(preferred)
            THEN /\ Graded(v, "fail", 0)
                 /\ v.message = "DNS records not found"
            ELSE IsArr(preferred.Answer) =>
                    /\ v.details.records = Len(preferred.Answer.items)
                    /\ v.details.dnssecValid =
                          ("AD" \in DOMAIN preferred /\ preferred.AD = TRUE)
                    /\ v.details.cdnDetected = detectCDN(preferred.Answer.items)

\* Cloudflare returned status 0 without answers while Google returned
\* answers: the records are reported as not found.
C13_EmptyPreferredWins ==
    /\ DnsReturned
    /\ net["cloudflare"].out = WithBody(Response(200), Json([Status |-> 0]))
    /\ net["google"].out = WithBody(Response(200), DnsUnsigned)
    /\ res["dns"].v.message = "DNS records not found"


\* checkEmailConfig, called on its own, has returned.
EmailReturned ==
    /\ call.fn = "email"
    /\ res["email"] # Pending
    /\ res["email"].kind = "return"

\* The MX lookup answered with status 0 and a list of records.
MxFound ==
    LET o == net["email"].out
    IN  /\ o.kind = "response" /\ o.ok
        /\ "body" \in DOMAIN o /\ o.body.parsed
        /\ ~IsNull(o.body.value)
        /\ o.body.value.Status = 0
        /\ "Answer" \in DOMAIN o.body.value
        /\ IsArr(o.body.value.Answer)
        /\ Len(o.body.value.Answer.items) > 0

PerformanceScoreOf(v) ==
    IF "performanceScore" \in DOMAIN v.details THEN v.details.performanceScore
    ELSE 0

\* C15: the mobile verdict is a function of the performance verdict alone:
\* performance status fail or performance score (0 when absent from the
\* details) below 50 gives warn/5; otherwise a score below 90 gives pass/12;
\* otherwise pass/15.  So a degraded performance verdict (warn/8, without a
\* score) gives mobile warn/5.
C15_MobileFollowsPerformance ==
    Returned =>
        LET perf == report.checks.pageSpeed
            mobile == report.checks.mobile
        IN  /\ IF perf.status = "fail" \/ PerformanceScoreOf(perf) < 50
               THEN Graded(mobile, "warn", 5)
               ELSE IF PerformanceScoreOf(perf) < 90
               THEN Graded(mobile, "pass", 12)
               ELSE Graded(mobile, "pass", 15)
            /\ Graded(perf, "warn", 8) => Graded(mobile, "warn", 5)

\* A report whose performance score is exactly 50: mobile is pass/12.
C15_ScoreFifty ==
    /\ Returned
    /\ PerformanceScoreOf(report.checks.pageSpeed) = 50
    /\ Graded(report.checks.pageSpeed, "warn", 10)
    /\ Graded(report.checks.mobile, "pass", 12)


\* The four critical issues in their order, each with the check it reports.
IssueOrder ==
    << [check |-> "ssl", text |-> "No HTTPS - Site is insecure"],
       [check |-> "availability", text |-> "Site is currently offline"],
       [check |-> "serverResponse", text |-> "Server response is very slow"],
       [check |-> "pageSpeed",
        text |-> "Poor page performance - significantly impacts user experience"] >>

\* The place of an issue text in that order, 0 for any other text.
IssueRank(text) ==
    IF \E k \in 1..Len(IssueOrder) : IssueOrder[k].text = text
    THEN CHOOSE k \in 1..Len(IssueOrder) : IssueOrder[k].text = text
    ELSE 0

\* C16: criticalIssues holds the no-HTTPS issue iff ssl.status = fail, the
\* site-offline issue iff availability.status = fail, the very-slow-server
\* issue iff serverResponse.status = fail, the poor-performance issue iff
\* pageSpeed.status = fail, in that order, and nothing else.
C16_CriticalIssuesByFixedRule ==
    Returned =>
        LET issues == report.criticalIssues
        IN  /\ \A k \in 1..Len(IssueOrder) :
                  (\E i \in 1..Len(issues) : issues[i] = IssueOrder[k].text)
                     <=> report.checks[IssueOrder[k].check].status = "fail"
            /\ \A i \in 1..Len(issues) : IssueRank(issues[i]) > 0
            /\ \A i, j \in 1..Len(issues) :
                  i < j => IssueRank(issues[i]) < IssueRank(issues[j])

\* A report in which all four of those checks failed, and dns did not.
C16_AllFourIssues ==
    /\ Returned
    /\ Len(report.criticalIssues) = 4
    /\ report.checks.dns.status # "fail"


\* The recommendation texts of each group, the groups in priority order:
\* SSL/HTTPS, performance, server response, DNS, DNSSEC, CDN, mobile, email.
RecGroups ==
    << {RecEnableHttps, RecRenewSoon, RecExpired},
       {RecSpeedFail, RecSpeedWarn},
       {RecServerFail, RecServerWarn},
       {RecDnsFail, RecDnsWarn},
       {RecDnssec},
       {RecCdn},
       {RecMobileFail, RecMobileWarn},
       {RecEmail} >>

\* The group of a recommendation text, 0 for a text of no group.
RecGroupOf(text) ==
    IF \E g \in 1..Len(RecGroups) : text \in RecGroups[g]
    THEN CHOOSE g \in 1..Len(RecGroups) : text \in RecGroups[g]
    ELSE 0

\* C17: the recommendations list is never empty; its entries follow the
\* fixed priority order SSL/HTTPS, performance, server response, DNS, DNSSEC,
\* CDN, mobile, email with at most one entry per group; and the positive
\* affirmation appears only as the sole entry.
C17_RecommendationsOrdered ==
    Returned =>
        LET recs == report.recommendations
        IN  /\ Len(recs) > 0
            /\ IF \E i \in 1..Len(recs) : recs[i] = RecGreatJob
               THEN recs = <<RecGreatJob>>
               ELSE /\ \A i \in 1..Len(recs) : RecGroupOf(recs[i]) > 0
                    /\ \A i, j \in 1..Len(recs) :
                          i < j => RecGroupOf(recs[i]) < RecGroupOf(recs[j])

\* A report with an entry of every group.
C17_EveryGroup ==
    /\ Returned
    /\ Len(report.recommendations) = Len(RecGroups)


\* The bands of SCORE_LEVELS that contain score x.
BandsAt(x) ==
    {i \in 1..Len(SCORE_LEVELS) :
        SCORE_LEVELS[i].min <= x /\ x <= SCORE_LEVELS[i].max}

\* The tier the documentation gives score x.
DocumentedLevel(x) ==
    IF x < 0 \/ x > 100 THEN "Unknown"
    ELSE IF x >= 85 THEN "EXCELLENT - Great website health!"
    ELSE IF x >= 70 THEN "GOOD - Minor improvements needed"
    ELSE IF x >= 50 THEN "NEEDS WORK - Several issues to fix"
    ELSE "POOR - Serious problems detected"

\* C18: getScoreLevel returns a tier for every integer score; for a score in
\* 0..100 exactly one band applies, 85-100 EXCELLENT, 70-84 GOOD, 50-69 NEEDS
\* WORK, 0-49 POOR, without gap or overlap; any score outside 0..100 gets
\* the Unknown tier with color #6c757d.
C18_ScoreLevelBands ==
    (phase = "done" /\ report.kind = "level") =>
        /\ report.level = DocumentedLevel(report.score)
        /\ report.score \in 0..100 => Cardinality(BandsAt(report.score)) = 1
        /\ report.score \notin 0..100 =>
              /\ BandsAt(report.score) = {}
              /\ report.level = "Unknown"
              /\ report.color = "#6c757d"

\* getScoreLevel(85): the lowest score of the top band.
C18_LowestExcellent ==
    /\ phase = "done" /\ report.kind = "level"
    /\ report.score = 85
    /\ report.level = "EXCELLENT - Great website health!"


\* What the documentation accepts as a target: a host name, with or without
\* an http or https prefix, that the URL parser reads and that is not the
\* machine itself.
AcceptableTarget(u) ==
    /\ u.scheme \in {"", "http", "https"}
    /\ u.host # <<>>
    /\ \A i \in 1..Len(u.host) : u.host[i] # BadLabel
    /\ u.host \notin {<<"localhost">>, <<"127", "0", "0", "1">>}

\* C19: a missing or invalid target URL is rejected before any probe runs:
\* no probe is started and no network request is issued at any time, and the
\* caller receives a single 400 validation error instead of a report.
C19_InvalidTargetRejected ==
    (call.fn = "handleScan" /\ call.env = "scan" /\ ~AcceptableTarget(url)) =>
        /\ \A o \in Ops : reqs[o] = 0 /\ net[o] = IdleOp
        /\ \A p \in Probes : res[p] = Pending
        /\ phase \in {"start", "done"}
        /\ phase = "done" => Rejected

\* The scan of a loopback URL was answered with the validation error.
C19_LocalhostRejected ==
    /\ Rejected
    /\ url = UrlString("http", <<"localhost">>)
    /\ report.error = "Localhost URLs are not supported"


\* The calls of checkRateLimit that returned allowed = true.
AllowedCalls ==
    {i \in DOMAIN limiter.h :
        limiter.h[i].pc = "done" /\ limiter.h[i].result.allowed}

\* The timestamps of all allowed requests of the IP.
AllowedTimestamps ==
    {limiter.earlier[j] : j \in 1..Len(limiter.earlier)}
    \cup {limiter.h[i].now : i \in AllowedCalls}

\* The number of allowed requests with a timestamp in [from, from + window).
AllowedWithin(from) ==
    LET windowMs == DEFAULT_CONFIG.windowSeconds * 1000
    IN  Cardinality({j \in 1..Len(limiter.earlier) :
                        limiter.earlier[j] >= from
                        /\ limiter.earlier[j] < from + windowMs})
        + Cardinality({i \in AllowedCalls :
                          limiter.h[i].now >= from
                          /\ limiter.h[i].now < from + windowMs})

\* C20: for the client IP and every interval of windowSeconds, checkRateLimit
\* returns allowed = true for at most maxRequests requests whose timestamps
\* fall in that interval, under every interleaving of the concurrently
\* handled requests, each a KV get followed later by a KV put.
C20_AtMostMaxPerWindow ==
    call.fn = "checkRateLimit" =>
        \A from \in AllowedTimestamps :
            AllowedWithin(from) <= DEFAULT_CONFIG.maxRequests


\* C21: the report is assembled only after all six probes have resolved, the
\* derived mobile and https verdicts come from the performance and
\* certificate verdicts that then exist, and for every completion order the
\* report holds exactly eight verdicts, each named check that of its own probe.
C21_ReportAfterAllProbes ==
    (call.fn = "handleScan" /\ call.env = "scan") =>
        /\ phase # "done" => report = NoReport
        /\ report.kind = "report" =>
              /\ \A p \in Probes : res[p].kind = "return"
              /\ \A o \in Ops : net[o].st \in {"idle", "done"}
              /\ DOMAIN report.checks = Probes \cup {"mobile", "https"}
              /\ \A p \in Probes : report.checks[p] = res[p].v
              /\ report.checks.mobile.details.derivedFrom = "pageSpeed"
              /\ report.checks.mobile.details.performanceScore =
                    PerformanceScoreOf(res["pageSpeed"].v)
              /\ report.checks.https.details.derivedFrom = "ssl"

\* A report in which the availability probe failed and the server-response
\* probe passed.
C21_AvailabilityFailedAlone ==
    /\ Returned
    /\ call.env = "scan"
    /\ report.checks.availability.status = "fail"
    /\ report.checks.serverResponse.status = "pass"


\* The probe that issues operation o.
ProbeOf(o) == CHOOSE p \in Probes : o \in OpsOf(p)

\* C22: when the timeout of one request fires, only that request is aborted:
\* the requests and timers of every other operation and the verdicts of all
\* sibling probes are left as they were, and the probe that timed out
\* returns its verdict as soon as its own requests have returned, without
\* waiting for a sibling.
C22_CancellationIsLocal ==
    [][\A o \in Ops :
          (net[o].timer = "armed" /\ net'[o].timer = "fired") =>
              /\ net[o].st = "pending"
              /\ net'[o].st = "done" /\ net'[o].out = AbortError
              /\ \A x \in Ops \ {o} : net'[x] = net[x] /\ reqs'[x] = reqs[x]
              /\ \A p \in Probes \ {ProbeOf(o)} : res'[p] = res[p]
              /\ (\A x \in OpsOf(ProbeOf(o)) : net'[x].st \in {"idle", "done"})
                    => res'[ProbeOf(o)].kind = "return"]_vars

\* The availability request timed out and its probe has returned while the
\* server-response request and the Cloudflare query are still pending, their
\* timers armed.
C22_SiblingsStillPending ==
    /\ call.env = "scan"
    /\ net["availability"].timer = "fired"
    /\ res["availability"].kind = "return"
    /\ net["serverResponse"].st = "pending" /\ net["serverResponse"].timer = "armed"
    /\ net["cloudflare"].st = "pending" /\ net["cloudflare"].timer = "armed"
    /\ res["serverResponse"] = Pending /\ res["dns"] = Pending


\* C23: every probe is single-attempt: within one scan each request (one per
\* DNS provider, the handshake, the CT lookup, the TTFB request, the
\* availability request, the MX lookup, the performance API call) is issued
\* at most once, and none is issued again after it failed or timed out.
C23_SingleAttempt ==
    [][\A o \in Ops :
          /\ reqs[o] \in {0, 1} /\ reqs'[o] \in {0, 1}
          /\ reqs[o] = 1 => reqs'[o] = 1
          /\ reqs'[o] = 0 <=> net'[o].st = "idle"
          /\ net[o].st = "done" => net'[o] = net[o]]_vars

\* A report of a scan whose server-response request failed: that request and
\* every other were issued once.
C23_FailedRequestNotRepeated ==
    /\ Returned
    /\ call.env = "scan"
    /\ net["serverResponse"].out.kind = "error"
    /\ net["pageSpeed"].out = AbortError
    /\ \A o \in Ops : reqs[o] = 1


\* The handshake of checkSSL, called on its own, has failed.
HandshakeFailed ==
    /\ call.fn = "ssl"
    /\ net["handshake"].st = "done"
    /\ net["handshake"].out.kind = "error"

\* The error text names the certificate, SSL or TLS.
NamesCertificate(message) ==
    \E i \in 1..Len(message) : message[i] \in {"certificate", "SSL", "TLS"}

C25_DaysIsFloorOfRemaining ==
    (CtAnswered /\ MatchingAt # {}) =>
        LET d == res["ssl"].v.details
            soon == "expiringSoon" \in DOMAIN d /\ d.expiringSoon
        IN  /\ d.daysUntilExpiry = (d.expiresAt - Clock) \div DayTicks
            /\ soon <=> (0 <= d.daysUntilExpiry /\ d.daysUntilExpiry <= 30)


\* Text t is among the recommendations of the report.
Recommends(t) ==
    \E i \in 1..Len(report.recommendations) : report.recommendations[i] = t

\* C26: for an ssl warn verdict whose details mark the certificate as
\* expired (expired = true, daysUntilExpiry < 0) the recommendations hold the
\* 'certificate has expired - renew immediately' text, and the 'Renew your SSL
\* certificate soon (expires in N days)' text appears only for a certificate
\* that is expiring soon (N >= 0).
C26_ExpiredAndExpiringDistinguished ==
    (Returned /\ report.checks.ssl.status = "warn") =>
        LET d == report.checks.ssl.details
        IN  /\ ("expired" \in DOMAIN d /\ d.expired /\ d.daysUntilExpiry < 0)
                  => Recommends(RecExpired)
            /\ Recommends(RecRenewSoon) =>
                  /\ "expiringSoon" \in DOMAIN d /\ d.expiringSoon
                  /\ d.daysUntilExpiry >= 0


\* C27: in every report the derived https check has the status of the ssl
\* check: fail/0 when the URL is not HTTPS (ssl is fail too), pass/10 when ssl
\* is pass, warn/5 when ssl is warn, fail/0 when ssl is fail; hence
\* https.score <= ssl.score.
C27_HttpsFollowsSsl ==
    Returned =>
        LET ssl == report.checks.ssl
            https == report.checks.https
        IN  /\ https.status = ssl.status
            /\ report.url.scheme # "https" =>
                  (Graded(https, "fail", 0) /\ ssl.status = "fail")
            /\ ssl.status = "pass" => Graded(https, "pass", 10)
            /\ ssl.status = "warn" => Graded(https, "warn", 5)
            /\ ssl.status = "fail" => Graded(https, "fail", 0)
            /\ https.score <= ssl.score

\* A report whose certificate expires soon: ssl warn/8, https warn/5.
C27_WarnEightGivesWarnFive ==
    /\ Returned
    /\ Graded(report.checks.ssl, "warn", 8)
    /\ Graded(report.checks.https, "warn", 5)


\* C28: the positive affirmation is the recommendation output only when all
\* eight checks have status pass; every report with some check at warn or
\* fail, in particular every report with a non-empty criticalIssues list,
\* carries at least one corrective recommendation.
C28_AffirmationOnlyWhenAllPass ==
    Returned =>
        /\ Recommends(RecGreatJob) =>
              \A c \in DOMAIN report.checks : report.checks[c].status = "pass"
        /\ report.criticalIssues # <<>> => ~Recommends(RecGreatJob)


\* C29: in every report whose scoreLevel is the EXCELLENT tier (overallScore
\* >= 85) the criticalIssues list is empty: no failed ssl, availability,
\* serverResponse or pageSpeed check goes with an overall score of 85 or more.
C29_ExcellentHasNoCriticalIssue ==
    (Returned /\ report.overallScore >= 85) =>
        /\ report.criticalIssues = <<>>
        /\ \A c \in {"ssl", "availability", "serverResponse", "pageSpeed"} :
              report.checks[c].status # "fail"


\* checkDNSSpeed, called on its own, graded a usable record set.
DnsGraded == DnsReturned /\ "averageTime" \in DOMAIN res["dns"].v.details

\* C30 as stated: the status agrees with the thresholds applied to the
\* reported (rounded) average: pass iff it is below 75, warn iff it is from 75
\* up to but not including 150, fail iff it is 150 or more; and minTime <=
\* reported average <= maxTime.
C30_StatusFollowsReportedAverage ==
    DnsGraded =>
        LET v == res["dns"].v
            reported == v.details.averageTime
        IN  /\ v.details.responseTime = reported
            /\ v.status = "pass" <=> reported < 75
            /\ v.status = "warn" <=> (75 <= reported /\ reported < 150)
            /\ v.status = "fail" <=> reported >= 150
            /\ v.details.minTime <= reported /\ reported <= v.details.maxTime

\* C30 as the code has it: averageTime and responseTime report the average
\* rounded half up, between minTime and maxTime, while the status comes from
\* the unrounded average; so a reported average below 75 means pass, 75 pass
\* or warn, above 75 and below 150 warn, 150 warn or fail, above 150 fail.
C30_StatusFollowsUnroundedAverage ==
    DnsGraded =>
        LET v == res["dns"].v
            reported == v.details.averageTime
        IN  /\ v.details.responseTime = reported
            /\ 2 * DnsOkCount * reported <= 2 * DnsOkSum + DnsOkCount
            /\ 2 * DnsOkSum + DnsOkCount < 2 * DnsOkCount * (reported + 1)
            /\ v.details.minTime <= reported /\ reported <= v.details.maxTime
            /\ reported < 75 => v.status = "pass"
            /\ reported = 75 => v.status \in {"pass", "warn"}
            /\ (75 < reported /\ reported < 150) => v.status = "warn"
            /\ reported = 150 => v.status \in {"warn", "fail"}
            /\ reported > 150 => v.status = "fail"

\* The providers answered after 149 and 150 ms: the average 149.5 is reported
\* as 150 and graded warn.
C30_ReportedAt150Warns ==
    /\ DnsGraded
    /\ net["cloudflare"].t = 149 /\ net["google"].t = 150
    /\ res["dns"].v.details.averageTime = 150
    /\ Graded(res["dns"].v, "warn", 5)

=============================================================================
